---------------------------- MODULE Spec2Model ----------------------------
(***************************************************************************)
(* A model of the copy-on-write overlay filesystem of riverlytech/art:     *)
(* the SQLite-backed delta store (pkg/db), the whiteout trie, the host     *)
(* adapter (HostFS), the delta filesystem (AgentFS) and the merge engine   *)
(* (OverlayFS) with its file handles.                                      *)
(*                                                                         *)
(* A virtual path is the sequence of its segments (the result of           *)
(* splitPath); <<>> is the root "/".                                       *)
(*                                                                         *)
(* An operation is a function from the state to a result (its error and    *)
(* the state it leaves).  A method that makes several calls in sequence is *)
(* written as a chain: X(w, ...) makes the first call and hands its result *)
(* to XAt, which holds the rest of the method's body; XIn, XTx and the     *)
(* like are the later links of the same chain.                             *)
(***************************************************************************)
EXTENDS Integers, Sequences, FiniteSets, TLC

VARIABLES
    base,       \* the host directory tree HostFS is rooted at: path -> entry
    inodes,     \* table fs_inode: ino -> row
    dentries,   \* table fs_dentry: <<parent_ino, name>> -> ino
    data,       \* table fs_data: <<ino, chunk_index>> -> bytes
    symlinks,   \* table fs_symlink: ino -> target
    whiteouts,  \* table fs_whiteout: path -> parent_path
    origins,    \* table fs_origin: delta_ino -> base_ino
    nextIno,    \* the AUTOINCREMENT sequence of fs_inode
    trie,       \* OverlayFS.whiteout, the in-memory WhiteoutCache
    cache,      \* AgentFS.cache, the dentry LRU: <<parent_ino, name>> -> ino
    files,      \* the open OverlayFile handles: handle id -> handle
    clock,      \* the wall clock nowUnix() reads
    calls,      \* the number of filesystem-interface calls made so far
    threads     \* the calls in progress, when calls run concurrently: id -> position

vars == <<base, inodes, dentries, data, symlinks, whiteouts, origins,
          nextIno, trie, cache, files, clock, calls, threads>>

-----------------------------------------------------------------------------
(* Bounds of the model *)

\* a run makes at most MaxCalls filesystem-interface calls
MaxCalls == 3
\* at most MaxFiles file handles are open at a time
MaxFiles == 2
\* the chunk size the store was created with (Config.ChunkSize)
ChunkSize == 2

Names == {"a", "b"}
Paths == {<<>>} \cup {<<n>> : n \in Names} \cup {<<"a", n>> : n \in Names} \cup {<<"b", "a">>}

\* the longer paths the whiteout trie is exercised with
TriePaths == Paths \cup {<<"b", "b">>} \cup {<<"a", n, m>> : n \in Names, m \in Names}

-----------------------------------------------------------------------------
(* Error values.  The db package and the overlay package each have their   *)
(* own sentinel errors; "sql" stands for any other error the SQL driver    *)
(* returns (a foreign-key or constraint failure).                          *)

OK == "ok"
ErrNotFound == "overlay.ErrNotFound"
ErrExists == "overlay.ErrExists"
ErrNotEmpty == "overlay.ErrNotEmpty"
ErrNotDir == "overlay.ErrNotDir"
ErrIsDir == "overlay.ErrIsDir"
ErrInvalid == "overlay.ErrInvalid"
DbErrNotFound == "db.ErrNotFound"
DbErrExists == "db.ErrExists"
DbErrNotEmpty == "db.ErrNotEmpty"
SqlErr == "sql"
OsErr == "os"

-----------------------------------------------------------------------------
(* File modes *)

S_IFMT == 61440
S_IFDIR == 16384
S_IFREG == 32768
S_IFLNK == 40960

\* mode & S_IFMT, for modes below 2^16
TypeOf(mode) == ((mode \div 4096) % 16) * 4096
\* mode & 0o777
PermOf(mode) == mode % 512

RECURSIVE BitOr(_, _)
BitOr(x, y) ==
    IF x = 0 THEN y
    ELSE IF y = 0 THEN x
    ELSE (IF x % 2 = 1 \/ y % 2 = 1 THEN 1 ELSE 0) + 2 * BitOr(x \div 2, y \div 2)

IsDirMode(mode) == TypeOf(mode) = S_IFDIR
IsRegMode(mode) == TypeOf(mode) = S_IFREG
IsLnkMode(mode) == TypeOf(mode) = S_IFLNK

-----------------------------------------------------------------------------
(* Paths *)

Prefix(p, i) == SubSeq(p, 1, i)
ParentOf(p) == SubSeq(p, 1, Len(p) - 1)
BaseName(p) == IF Len(p) = 0 THEN "" ELSE p[Len(p)]
IsPrefixOf(q, p) == Len(q) <= Len(p) /\ SubSeq(p, 1, Len(q)) = q
Min2(x, y) == IF x < y THEN x ELSE y
Max2(x, y) == IF x > y THEN x ELSE y

\* a function with one more (or one replaced) mapping
Put(f, k, v) == [x \in DOMAIN f \cup {k} |-> IF x = k THEN v ELSE f[x]]
\* a function restricted to the keys outside D
Drop(f, D) == [x \in DOMAIN f \ D |-> f[x]]

EmptyFn == [x \in {} |-> 0]

-----------------------------------------------------------------------------
(* WhiteoutCache: a trie.  nodes is the set of trie nodes, each named by   *)
(* the path from the root; marks is the set of nodes with isWhiteout set.  *)

EmptyTrie == [nodes |-> {<<>>}, marks |-> {}]

TrieChildren(t, n) == {m \in t.nodes : Len(m) = Len(n) + 1 /\ ParentOf(m) = n}

insertLocked(t, p) ==
    [nodes |-> t.nodes \cup {Prefix(p, i) : i \in 0..Len(p)},
     marks |-> t.marks \cup {p}]

TrieInsert(t, p) == insertLocked(t, p)

RECURSIVE LoadRec(_, _)
LoadRec(t, S) ==
    IF S = {} THEN t
    ELSE LET p == CHOOSE x \in S : TRUE IN LoadRec(insertLocked(t, p), S \ {p})

LoadFromPaths(S) == LoadRec(EmptyTrie, S)

\* the bottom-up cleanup loop of Remove, at the node of depth i on path p
RECURSIVE PruneUp(_, _, _)
PruneUp(t, p, i) ==
    IF i = 0 THEN t
    ELSE LET child == Prefix(p, i) IN
         IF TrieChildren(t, child) = {} /\ child \notin t.marks
         THEN PruneUp([t EXCEPT !.nodes = @ \ {child}], p, i - 1)
         ELSE t

TrieRemove(t, p) ==
    IF Len(p) = 0 THEN t
    ELSE IF p \notin t.nodes THEN t
    ELSE PruneUp([t EXCEPT !.marks = @ \ {p}], p, Len(p))

HasExactWhiteout(t, p) == p \in t.nodes /\ p \in t.marks

\* the walk of HasWhiteoutAncestor from depth i on
RECURSIVE AncestorWalk(_, _, _)
AncestorWalk(t, p, i) ==
    IF i > Len(p) THEN FALSE
    ELSE IF Prefix(p, i) \notin t.nodes THEN FALSE
    ELSE IF Prefix(p, i) \in t.marks THEN TRUE
    ELSE AncestorWalk(t, p, i + 1)

HasWhiteoutAncestor(t, p) == AncestorWalk(t, p, 1)

GetChildWhiteouts(t, d) ==
    IF d \notin t.nodes THEN {}
    ELSE {BaseName(m) : m \in {c \in TrieChildren(t, d) : c \in t.marks}}

\* collectWhiteouts: every marked node reachable from the root, the root excepted
RECURSIVE collectWhiteouts(_, _)
collectWhiteouts(t, n) ==
    (IF n \in t.marks /\ n # <<>> THEN {n} ELSE {})
    \cup UNION {collectWhiteouts(t, c) : c \in TrieChildren(t, n)}

GetAllWhiteouts(t) == collectWhiteouts(t, <<>>)

-----------------------------------------------------------------------------
(* The state as one record, so that an operation is a function from state  *)
(* to state and a rolled-back transaction is the state it started from.    *)

World ==
    [base |-> base, inodes |-> inodes, dentries |-> dentries, data |-> data,
     symlinks |-> symlinks, whiteouts |-> whiteouts, origins |-> origins,
     nextIno |-> nextIno, trie |-> trie, cache |-> cache, files |-> files,
     clock |-> clock]

\* the result of an operation: its error (OK for nil) and the state it leaves
R(e, w) == [err |-> e, w |-> w]

\* the persistent tables of a state
StoreOf(w) ==
    [inodes |-> w.inodes, dentries |-> w.dentries, data |-> w.data,
     symlinks |-> w.symlinks, whiteouts |-> w.whiteouts, origins |-> w.origins,
     nextIno |-> w.nextIno]

\* Store.WithTx: commit the body's state on success, roll the tables back on error
\* (r is the body's result, run on w)
WithTx(w, r) ==
    IF r.err = OK THEN r
    ELSE [r EXCEPT !.w = [@ EXCEPT !.inodes = w.inodes, !.dentries = w.dentries,
                                   !.data = w.data, !.symlinks = w.symlinks,
                                   !.whiteouts = w.whiteouts, !.origins = w.origins,
                                   !.nextIno = w.nextIno]]

-----------------------------------------------------------------------------
(* db.Store: inodes *)

NewInode(mode, uid, gid, now) ==
    [mode |-> mode, nlink |-> 1, uid |-> uid, gid |-> gid, size |-> 0,
     atime |-> now, mtime |-> now, ctime |-> now]

\* CreateInodeTx: the new inode is w.nextIno (read it before applying)
CreateInodeTx(w, mode, uid, gid) ==
    [w EXCEPT !.inodes = Put(@, w.nextIno, NewInode(mode, uid, gid, w.clock)),
              !.nextIno = @ + 1]

HasInode(w, ino) == ino \in DOMAIN w.inodes

\* GetInode's error
GetInodeErr(w, ino) == IF HasInode(w, ino) THEN OK ELSE DbErrNotFound

UpdateSize(w, ino, size) ==
    IF HasInode(w, ino)
    THEN [w EXCEPT !.inodes[ino].size = size, !.inodes[ino].mtime = w.clock,
                   !.inodes[ino].ctime = w.clock]
    ELSE w

\* UpdateTimes: at, mt are <<>> for a nil pointer and <<t>> for a time
UpdateTimes(w, ino, at, mt) ==
    IF HasInode(w, ino)
    THEN [w EXCEPT !.inodes[ino].atime = IF at = <<>> THEN w.clock ELSE at[1],
                   !.inodes[ino].mtime = IF mt = <<>> THEN w.clock ELSE mt[1],
                   !.inodes[ino].ctime = w.clock]
    ELSE w

\* ON DELETE CASCADE from fs_inode to fs_dentry, fs_data, fs_symlink, fs_origin
DeleteInodeTx(w, ino) ==
    [w EXCEPT !.inodes = Drop(@, {ino}),
              !.dentries = Drop(@, {k \in DOMAIN @ : k[1] = ino \/ @[k] = ino}),
              !.data = Drop(@, {k \in DOMAIN @ : k[1] = ino}),
              !.symlinks = Drop(@, {ino}),
              !.origins = Drop(@, {ino})]

IncrNlinkTx(w, ino) ==
    IF HasInode(w, ino)
    THEN [w EXCEPT !.inodes[ino].nlink = @ + 1, !.inodes[ino].ctime = w.clock]
    ELSE w

\* DecrNlinkTx: the UPDATE, then the SELECT whose Scan fails when the row is
\* missing or the count does not fit a uint32
DecrNlinkTx(w, ino) ==
    IF ~HasInode(w, ino) THEN R(SqlErr, w)
    ELSE IF w.inodes[ino].nlink - 1 < 0
    THEN R(SqlErr, [w EXCEPT !.inodes[ino].nlink = @ - 1])
    ELSE R(OK, [w EXCEPT !.inodes[ino].nlink = @ - 1, !.inodes[ino].ctime = w.clock])

\* SetAttr: m, u, g are <<>> for nil and <<v>> for a value
SetAttr(w, ino, m, u, g) ==
    IF ~HasInode(w, ino) THEN R(DbErrNotFound, w)
    ELSE R(OK, [w EXCEPT
            !.inodes[ino].ctime = w.clock,
            !.inodes[ino].mode = IF m = <<>> THEN @
                                 ELSE BitOr(TypeOf(@), m[1] - TypeOf(m[1])),
            !.inodes[ino].uid = IF u = <<>> THEN @ ELSE u[1],
            !.inodes[ino].gid = IF g = <<>> THEN @ ELSE g[1]])

-----------------------------------------------------------------------------
(* db.Store: directory entries *)

HasDentry(w, parent, name) == <<parent, name>> \in DOMAIN w.dentries

\* Lookup: the child inode, 0 with db.ErrNotFound
Lookup(w, parent, name) ==
    IF HasDentry(w, parent, name) THEN w.dentries[<<parent, name>>] ELSE 0

\* ListDir: the names under a directory inode
ListDir(w, parent) == {k[2] : k \in {d \in DOMAIN w.dentries : d[1] = parent}}

HasChildren(w, parent) == \E k \in DOMAIN w.dentries : k[1] = parent

\* CreateDentryTx: UNIQUE(parent_ino, name), then the two foreign keys
CreateDentryTx(w, parent, name, ino) ==
    IF HasDentry(w, parent, name) THEN R(DbErrExists, w)
    ELSE IF ~HasInode(w, parent) \/ ~HasInode(w, ino) THEN R(SqlErr, w)
    ELSE R(OK, [w EXCEPT !.dentries = Put(@, <<parent, name>>, ino)])

DeleteDentryTx(w, parent, name) ==
    IF HasDentry(w, parent, name)
    THEN R(OK, [w EXCEPT !.dentries = Drop(@, {<<parent, name>>})])
    ELSE R(DbErrNotFound, w)

\* the target branch of Store.Rename: replace an existing destination
RenameOverTarget(w, np, nn) ==
    LET targetIno == w.dentries[<<np, nn>>]
        targetMode == IF HasInode(w, targetIno) THEN w.inodes[targetIno].mode ELSE 0
    IN IF IsDirMode(targetMode) /\ HasChildren(w, targetIno) THEN R(DbErrNotEmpty, w)
       ELSE LET w1 == [w EXCEPT !.dentries = Drop(@, {<<np, nn>>})]
                w2 == IF HasInode(w1, targetIno)
                      THEN [w1 EXCEPT !.inodes[targetIno].nlink = @ - 1]
                      ELSE w1
                w3 == IF HasInode(w2, targetIno) /\ w2.inodes[targetIno].nlink = 0
                      THEN DeleteInodeTx(w2, targetIno)
                      ELSE w2
            IN R(OK, w3)

\* Store.Rename, one transaction
StoreRename(w, op, np, on, nn) ==
    WithTx(w,
        IF ~HasDentry(w, op, on) THEN R(DbErrNotFound, w)
        ELSE LET ino == w.dentries[<<op, on>>]
                 r1 == IF HasDentry(w, np, nn) THEN RenameOverTarget(w, np, nn)
                       ELSE R(OK, w)
             IN IF r1.err # OK THEN r1
                ELSE LET w2 == [r1.w EXCEPT !.dentries = Drop(@, {<<op, on>>})]
                         r3 == CreateDentryTx(w2, np, nn, ino)
                     IN IF r3.err # OK THEN R(SqlErr, r3.w) ELSE r3)

-----------------------------------------------------------------------------
(* db.Store: symlinks, whiteouts, origins *)

CreateSymlinkTx(w, ino, target) ==
    IF ino \in DOMAIN w.symlinks \/ ~HasInode(w, ino) THEN R(SqlErr, w)
    ELSE R(OK, [w EXCEPT !.symlinks = Put(@, ino, target)])

DeleteSymlinkTx(w, ino) == [w EXCEPT !.symlinks = Drop(@, {ino})]

DeleteDataTx(w, ino) == [w EXCEPT !.data = Drop(@, {k \in DOMAIN @ : k[1] = ino})]

\* a CreateWhiteout that reports success and writes no row
CreateWhiteoutLostAs(w, p) == w

\* CreateWhiteout: INSERT OR REPLACE (path, filepath.Dir(path))
CreateWhiteout(w, p) == [w EXCEPT !.whiteouts = Put(@, p, ParentOf(p))]

DeleteWhiteout(w, p) == [w EXCEPT !.whiteouts = Drop(@, {p})]

ListWhiteouts(w) == DOMAIN w.whiteouts

\* AddOrigin: INSERT OR REPLACE, delta_ino references fs_inode
AddOrigin(w, deltaIno, baseIno) ==
    IF ~HasInode(w, deltaIno) THEN R(SqlErr, w)
    ELSE R(OK, [w EXCEPT !.origins = Put(@, deltaIno, baseIno)])

\* GetOrigin: 0 when there is no mapping
GetOrigin(w, deltaIno) ==
    IF deltaIno \in DOMAIN w.origins THEN w.origins[deltaIno] ELSE 0

DeleteOrigin(w, deltaIno) == [w EXCEPT !.origins = Drop(@, {deltaIno})]

-----------------------------------------------------------------------------
(* db.Store: chunked file data.  A byte string is a sequence of numbers;   *)
(* Go's slice data[i:j] is SubSeq(data, i + 1, j).                         *)

Zeros(n) == [i \in 1..n |-> 0]

HasChunk(w, ino, idx) == <<ino, idx>> \in DOMAIN w.data

\* the loop of ReadData over the rows chunk_index idx..endChunk, in order;
\* acc is result, and bytesRead is Len(acc)
RECURSIVE ReadLoop(_, _, _, _, _, _, _)
ReadLoop(w, ino, offset, length, idx, endChunk, acc) ==
    IF idx > endChunk THEN acc
    ELSE IF ~HasChunk(w, ino, idx)
    THEN ReadLoop(w, ino, offset, length, idx + 1, endChunk, acc)
    ELSE IF ~(Len(acc) < length) THEN acc
    ELSE LET chunk == w.data[<<ino, idx>>]
             chunkStart == idx * ChunkSize
             readStart == IF offset > chunkStart THEN offset - chunkStart ELSE 0
             remaining == length - Len(acc)
             readEnd0 == IF Len(chunk) - readStart > remaining
                         THEN readStart + remaining ELSE Len(chunk)
             readEnd == IF readEnd0 > Len(chunk) THEN Len(chunk) ELSE readEnd0
             acc1 == IF readStart < Len(chunk) /\ readEnd0 > readStart
                     THEN acc \o SubSeq(chunk, readStart + 1, readEnd)
                     ELSE acc
         IN ReadLoop(w, ino, offset, length, idx + 1, endChunk, acc1)

\* Store.ReadData
ReadData(w, ino, offset, length) ==
    IF length <= 0 THEN <<>>
    ELSE ReadLoop(w, ino, offset, length, offset \div ChunkSize,
                  (offset + length - 1) \div ChunkSize, <<>>)

\* a chunk built without the bytes the chunk held before
NewChunkFreshAs(w, ino, chunkIdx, writeStart, writeLen, piece) ==
    [i \in 1..(writeStart + writeLen) |-> IF i > writeStart THEN piece[i - writeStart] ELSE 0]

\* the chunk writeDataTx stores at chunkIdx: bytes[dataOffset..] at writeStart
NewChunk(w, ino, chunkIdx, writeStart, writeLen, piece) ==
    LET existingData == IF (writeStart > 0 \/ writeLen < ChunkSize) /\ HasChunk(w, ino, chunkIdx)
                        THEN w.data[<<ino, chunkIdx>>] ELSE <<>>
        neededLen == writeStart + writeLen
        buf == IF Len(existingData) > 0
               THEN IF Len(existingData) < neededLen
                    THEN existingData \o Zeros(neededLen - Len(existingData))
                    ELSE existingData
               ELSE Zeros(neededLen)
    IN [i \in 1..Len(buf) |->
            IF i > writeStart /\ i <= writeStart + writeLen THEN piece[i - writeStart]
            ELSE buf[i]]

\* the loop of writeDataTx from chunkIdx on; dataOffset bytes are written already
RECURSIVE WriteLoop(_, _, _, _, _, _)
WriteLoop(w, ino, offset, bytes, chunkIdx, dataOffset) ==
    IF chunkIdx > (offset + Len(bytes) - 1) \div ChunkSize THEN R(OK, w)
    ELSE LET chunkStart == chunkIdx * ChunkSize
             writeStart == IF offset > chunkStart THEN offset - chunkStart ELSE 0
             writeLen0 == ChunkSize - writeStart
             writeLen == IF dataOffset + writeLen0 > Len(bytes)
                         THEN Len(bytes) - dataOffset ELSE writeLen0
             piece == SubSeq(bytes, dataOffset + 1, dataOffset + writeLen)
             chunk == NewChunk(w, ino, chunkIdx, writeStart, writeLen, piece)
         IN IF ~HasInode(w, ino) THEN R(SqlErr, w)
            ELSE WriteLoop([w EXCEPT !.data = Put(@, <<ino, chunkIdx>>, chunk)],
                           ino, offset, bytes, chunkIdx + 1, dataOffset + writeLen)

writeDataTx(w, ino, offset, bytes) ==
    IF Len(bytes) = 0 THEN R(OK, w)
    ELSE WriteLoop(w, ino, offset, bytes, offset \div ChunkSize, 0)

\* a WriteData that stops at the end of the first chunk it touches
WriteDataOneChunkAs(w, ino, offset, bytes) ==
    WithTx(w, writeDataTx(w, ino, offset,
                          SubSeq(bytes, 1, Min2(Len(bytes), ChunkSize - (offset % ChunkSize)))))

\* Store.WriteData: writeDataTx in its own transaction
WriteData(w, ino, offset, bytes) == WithTx(w, writeDataTx(w, ino, offset, bytes))

\* Store.Truncate (truncateTx in its own transaction; no statement of it can fail)
StoreTruncate(w, ino, size) ==
    IF size = 0 THEN DeleteDataTx(w, ino)
    ELSE LET lastChunk == (size - 1) \div ChunkSize
             w1 == [w EXCEPT !.data = Drop(@, {k \in DOMAIN @ : k[1] = ino /\ k[2] > lastChunk})]
             offsetInLastChunk == size - lastChunk * ChunkSize
         IN IF ~HasChunk(w1, ino, lastChunk) THEN w1
            ELSE IF Len(w1.data[<<ino, lastChunk>>]) > offsetInLastChunk
            THEN [w1 EXCEPT !.data[<<ino, lastChunk>>] = SubSeq(@, 1, offsetInLastChunk)]
            ELSE w1

-----------------------------------------------------------------------------
(* HostFS: the base layer, a passthrough to the host directory.  An entry  *)
(* of base is what the host reports for a path (lstat), with the bytes of  *)
(* a regular file (content), the target of a symlink (target, a string as *)
(* a sequence of characters) and the path the host resolves it to (dest).  *)

RV(e, w, v) == [err |-> e, w |-> w, val |-> v]

\* open flags: O_RDONLY is the empty set
O_RDONLY == {}
O_RDWR == {"O_RDWR"}
O_WRONLY == {"O_WRONLY"}
O_TRUNC == {"O_TRUNC"}
O_APPEND == {"O_APPEND"}

\* fileInfoToStats with fillUnixStats
HostStats(e) ==
    [ino |-> e.ino, mode |-> e.mode, nlink |-> e.nlink, uid |-> e.uid, gid |-> e.gid,
     size |-> e.size, atime |-> e.atime, mtime |-> e.mtime, ctime |-> e.ctime]

\* the error of the host's lstat on a path that is not there: ENOENT, or ENOTDIR
\* when a proper ancestor is not a directory
HostMissingErr(b, p) ==
    IF \E i \in 0..(Len(p) - 1) : Prefix(p, i) \in DOMAIN b /\ ~IsDirMode(b[Prefix(p, i)].mode)
    THEN OsErr ELSE ErrNotFound

HostExists(b, p) == p \in DOMAIN b

\* HostFS.Lstat: its error
HostLstatErr(b, p) == IF HostExists(b, p) THEN OK ELSE HostMissingErr(b, p)

\* the host path a final symlink is followed to (os.Stat, os.OpenFile)
HostFollow(b, p) == IF HostExists(b, p) /\ IsLnkMode(b[p].mode) THEN b[p].dest ELSE p

\* HostFS.Stat: its error
HostStatErr(b, p) == HostLstatErr(b, HostFollow(b, p))

\* HostFS.Readlink: its error (the target is b[p].target)
HostReadlinkErr(b, p) ==
    IF ~HostExists(b, p) THEN HostMissingErr(b, p)
    ELSE IF IsLnkMode(b[p].mode) THEN OK ELSE OsErr

\* HostFS.Access: an lstat
HostAccessErr(b, p) == HostLstatErr(b, p)

\* HostFS.Readdir: the entries of a host directory (os.ReadDir follows a symlink)
HostReaddir(b, p) ==
    {[name |-> BaseName(q), mode |-> b[q].mode, ino |-> b[q].ino] :
        q \in {x \in DOMAIN b : Len(x) = Len(HostFollow(b, p)) + 1 /\ ParentOf(x) = HostFollow(b, p)}}

HostReaddirErr(b, p) ==
    IF ~HostExists(b, HostFollow(b, p)) THEN HostMissingErr(b, HostFollow(b, p))
    ELSE IF IsDirMode(b[HostFollow(b, p)].mode) THEN OK ELSE OsErr

\* HostFS.Open: os.OpenFile follows a final symlink; O_TRUNC empties the file.
\* val is the host path of the open file.
HostOpen(w, p, flags) ==
    LET q == HostFollow(w.base, p) IN
    IF ~HostExists(w.base, q) THEN RV(HostMissingErr(w.base, q), w, p)
    ELSE IF "O_TRUNC" \in flags /\ IsRegMode(w.base[q].mode)
    THEN RV(OK, [w EXCEPT !.base[q].content = <<>>, !.base[q].size = 0], q)
    ELSE RV(OK, w, q)

\* OSFile.Read: ReadAt(dest, offset) on the host file; io.EOF when it comes up short
OSFileRead(b, q, length, offset) ==
    LET c == b[q].content
        n == Max2(0, Min2(length, Len(c) - offset))
    IN [err |-> IF ~IsRegMode(b[q].mode) THEN OsErr
                ELSE IF n < length THEN "io.EOF" ELSE OK,
        bytes |-> IF IsRegMode(b[q].mode) THEN SubSeq(c, offset + 1, offset + n) ELSE <<>>]

-----------------------------------------------------------------------------
(* AgentFS: the delta layer over the store, with its dentry cache.  An      *)
(* operator named XAt, XIn or XTx is the part of X that runs on the result  *)
(* of the step before it.                                                   *)

InodeToStats(w, ino) ==
    [ino |-> ino, mode |-> w.inodes[ino].mode, nlink |-> w.inodes[ino].nlink,
     uid |-> w.inodes[ino].uid, gid |-> w.inodes[ino].gid, size |-> w.inodes[ino].size,
     atime |-> w.inodes[ino].atime, mtime |-> w.inodes[ino].mtime,
     ctime |-> w.inodes[ino].ctime]

\* the loop of resolvePath from segment i on, at inode ino
RECURSIVE ResolveFrom(_, _, _, _)
ResolveFrom(w, path, i, ino) ==
    IF i > Len(path) THEN RV(OK, w, ino)
    ELSE IF <<ino, path[i]>> \in DOMAIN w.cache
    THEN ResolveFrom(w, path, i + 1, w.cache[<<ino, path[i]>>])
    ELSE IF ~HasDentry(w, ino, path[i]) THEN RV(ErrNotFound, w, 0)
    ELSE ResolveFrom([w EXCEPT !.cache = Put(@, <<ino, path[i]>>, w.dentries[<<ino, path[i]>>])],
                     path, i + 1, w.dentries[<<ino, path[i]>>])

\* AgentFS.resolvePath: val is the inode
resolvePath(w, path) == ResolveFrom(w, path, 1, 1)

\* AgentFS.resolveParentAndName: val is the parent inode, the name is BaseName(path)
resolveParentAndName(w, path) ==
    IF Len(path) = 0 THEN RV(ErrInvalid, w, 0) ELSE resolvePath(w, ParentOf(path))

\* a cache that keeps the entry of a changed name
invalidateNothingAs(w, parent, name) == w

invalidateCache(w, parent, name) == [w EXCEPT !.cache = Drop(@, {<<parent, name>>})]

\* "if err == nil { a.invalidateCache(parentIno, name) }; return err"
Invalidated(t, parent, name) ==
    IF t.err = OK THEN R(OK, invalidateCache(t.w, parent, name)) ELSE t

AgentLstatAt(r) ==
    IF r.err # OK THEN r
    ELSE IF ~HasInode(r.w, r.val) THEN RV(ErrNotFound, r.w, 0)
    ELSE RV(OK, r.w, InodeToStats(r.w, r.val))

\* AgentFS.Lstat (and Stat, which is the same): val is the stats
AgentLstat(w, path) == AgentLstatAt(resolvePath(w, path))

AgentReadlinkAt(r) ==
    IF r.err # OK THEN r
    ELSE IF r.val \notin DOMAIN r.w.symlinks THEN RV(ErrNotFound, r.w, 0)
    ELSE RV(OK, r.w, r.w.symlinks[r.val])

\* AgentFS.Readlink: val is the target
AgentReadlink(w, path) == AgentReadlinkAt(resolvePath(w, path))

\* the entries of directory inode dir whose inode GetInode finds
DirEntries(w, dir) ==
    {[name |-> n, mode |-> w.inodes[w.dentries[<<dir, n>>]].mode, ino |-> w.dentries[<<dir, n>>]] :
        n \in {m \in ListDir(w, dir) : HasInode(w, w.dentries[<<dir, m>>])}}

AgentReaddirAt(r) == IF r.err # OK THEN r ELSE RV(OK, r.w, DirEntries(r.w, r.val))

\* AgentFS.Readdir: val is the set of entries
AgentReaddir(w, path) == AgentReaddirAt(resolvePath(w, path))

\* AgentFS.Access and AgentFS.GetIno
AgentAccess(w, path) == resolvePath(w, path)
GetIno(w, path) == resolvePath(w, path)

\* db.ErrExists from CreateDentryTx becomes overlay.ErrExists
MapExists(r) == IF r.err = DbErrExists THEN R(ErrExists, r.w) ELSE r

\* "return a.store.IncrNlinkTx(ctx, tx, ino)" after a step that returned r
ThenIncrNlink(r, ino) == IF r.err # OK THEN r ELSE R(OK, IncrNlinkTx(r.w, ino))

\* the transaction of AgentFS.Mkdir
AgentMkdirTx(w, parent, name, mode) ==
    WithTx(w, ThenIncrNlink(
                MapExists(CreateDentryTx(CreateInodeTx(w, BitOr(S_IFDIR, mode), 0, 0),
                                         parent, name, w.nextIno)),
                parent))

AgentMkdirAt(r, name, mode) ==
    IF r.err # OK THEN R(r.err, r.w) ELSE AgentMkdirTx(r.w, r.val, name, mode)

AgentMkdir(w, path, mode) == AgentMkdirAt(resolveParentAndName(w, path), BaseName(path), mode)

AgentRmdirTx(r1, parent, ino) ==
    IF r1.err # OK THEN r1 ELSE DecrNlinkTx(DeleteInodeTx(r1.w, ino), parent)

AgentRmdirIn(w, parent, name, ino) ==
    IF ino = 0 THEN R(ErrNotFound, w)
    ELSE IF ~HasInode(w, ino) THEN R(DbErrNotFound, w)
    ELSE IF ~IsDirMode(w.inodes[ino].mode) THEN R(ErrNotDir, w)
    ELSE IF HasChildren(w, ino) THEN R(ErrNotEmpty, w)
    ELSE Invalidated(WithTx(w, AgentRmdirTx(DeleteDentryTx(w, parent, name), parent, ino)),
                     parent, name)

AgentRmdirAt(r, name) ==
    IF r.err # OK THEN R(r.err, r.w)
    ELSE AgentRmdirIn(r.w, r.val, name, Lookup(r.w, r.val, name))

AgentRmdir(w, path) == AgentRmdirAt(resolveParentAndName(w, path), BaseName(path))

\* the transaction of AgentFS.Create; the new inode is w.nextIno
AgentCreateTx(w, parent, name, mode) ==
    WithTx(w, MapExists(CreateDentryTx(CreateInodeTx(w, BitOr(S_IFREG, mode), 0, 0),
                                       parent, name, w.nextIno)))

WithVal(t, v) == RV(t.err, t.w, v)

AgentCreateAt(r, name, mode) ==
    IF r.err # OK THEN r
    ELSE WithVal(AgentCreateTx(r.w, r.val, name, mode), r.w.nextIno)

\* AgentFS.Create: val is the inode of the new AgentFile
AgentCreate(w, path, mode) == AgentCreateAt(resolveParentAndName(w, path), BaseName(path), mode)

AgentOpenAt(r, flags) ==
    IF r.err # OK THEN r
    ELSE IF "O_TRUNC" \in flags
    THEN RV(OK, UpdateSize(StoreTruncate(r.w, r.val, 0), r.val, 0), r.val)
    ELSE r

\* AgentFS.Open: val is the inode of the AgentFile
AgentOpen(w, path, flags) == AgentOpenAt(resolvePath(w, path), flags)

\* "if remaining == 0": delete the symlink row or the data, then the inode
AgentRemoveLast(r2, ino, isLnk) ==
    IF r2.err # OK THEN r2
    ELSE IF r2.w.inodes[ino].nlink # 0 THEN r2
    ELSE IF isLnk THEN R(OK, DeleteInodeTx(DeleteSymlinkTx(r2.w, ino), ino))
    ELSE R(OK, DeleteInodeTx(DeleteDataTx(r2.w, ino), ino))

AgentRemoveTx(r1, ino, isLnk) ==
    IF r1.err # OK THEN r1 ELSE AgentRemoveLast(DecrNlinkTx(r1.w, ino), ino, isLnk)

AgentRemoveIn(w, parent, name, ino) ==
    IF ino = 0 THEN R(ErrNotFound, w)
    ELSE IF ~HasInode(w, ino) THEN R(DbErrNotFound, w)
    ELSE IF IsDirMode(w.inodes[ino].mode) THEN R(ErrIsDir, w)
    ELSE Invalidated(WithTx(w, AgentRemoveTx(DeleteDentryTx(w, parent, name), ino,
                                             IsLnkMode(w.inodes[ino].mode))),
                     parent, name)

AgentRemoveAt(r, name) ==
    IF r.err # OK THEN R(r.err, r.w)
    ELSE AgentRemoveIn(r.w, r.val, name, Lookup(r.w, r.val, name))

AgentRemove(w, path) == AgentRemoveAt(resolveParentAndName(w, path), BaseName(path))

AgentRenameTo(r2, oldParent, oldName, newName) ==
    IF r2.err # OK THEN R(r2.err, r2.w)
    ELSE Invalidated(Invalidated(StoreRename(r2.w, oldParent, r2.val, oldName, newName),
                                 oldParent, oldName),
                     r2.val, newName)

AgentRenameAt(r1, oldpath, newpath) ==
    IF r1.err # OK THEN R(r1.err, r1.w)
    ELSE AgentRenameTo(resolveParentAndName(r1.w, newpath), r1.val,
                       BaseName(oldpath), BaseName(newpath))

AgentRename(w, oldpath, newpath) ==
    AgentRenameAt(resolveParentAndName(w, oldpath), oldpath, newpath)

AgentChmodAt(r, mode) ==
    IF r.err # OK THEN R(r.err, r.w)
    ELSE IF ~HasInode(r.w, r.val) THEN R(DbErrNotFound, r.w)
    ELSE SetAttr(r.w, r.val,
                 <<BitOr(TypeOf(r.w.inodes[r.val].mode), PermOf(mode))>>, <<>>, <<>>)

AgentChmod(w, path, mode) == AgentChmodAt(resolvePath(w, path), mode)

AgentChownAt(r, uid, gid) ==
    IF r.err # OK THEN R(r.err, r.w) ELSE SetAttr(r.w, r.val, <<>>, <<uid>>, <<gid>>)

AgentChown(w, path, uid, gid) == AgentChownAt(resolvePath(w, path), uid, gid)

AgentTruncateAt(r, size) ==
    IF r.err # OK THEN R(r.err, r.w)
    ELSE R(OK, UpdateSize(StoreTruncate(r.w, r.val, size), r.val, size))

AgentTruncate(w, path, size) == AgentTruncateAt(resolvePath(w, path), size)

AgentUtimensAt(r, at, mt) ==
    IF r.err # OK THEN R(r.err, r.w) ELSE R(OK, UpdateTimes(r.w, r.val, at, mt))

AgentUtimens(w, path, at, mt) == AgentUtimensAt(resolvePath(w, path), at, mt)

\* the symlink row, its size, and the dentry of a new symlink inode ino
SymlinkRows(r2, parent, name, ino, target) ==
    IF r2.err # OK THEN r2
    ELSE CreateDentryTx(UpdateSize(r2.w, ino, Len(target)), parent, name, ino)

\* the transaction of AgentFS.Symlink; the new inode is w.nextIno
AgentSymlinkTx(w, parent, name, target) ==
    WithTx(w, SymlinkRows(CreateSymlinkTx(CreateInodeTx(w, BitOr(S_IFLNK, 511), 0, 0),
                                          w.nextIno, target),
                          parent, name, w.nextIno, target))

AgentSymlinkAt(r, name, target) ==
    IF r.err # OK THEN R(r.err, r.w) ELSE AgentSymlinkTx(r.w, r.val, name, target)

AgentSymlink(w, target, linkpath) ==
    AgentSymlinkAt(resolveParentAndName(w, linkpath), BaseName(linkpath), target)

AgentLinkTo(r2, name, srcIno) ==
    IF r2.err # OK THEN R(r2.err, r2.w)
    ELSE WithTx(r2.w, ThenIncrNlink(MapExists(CreateDentryTx(r2.w, r2.val, name, srcIno)),
                                    srcIno))

AgentLinkAt(r, newpath) ==
    IF r.err # OK THEN R(r.err, r.w)
    ELSE IF ~HasInode(r.w, r.val) THEN R(DbErrNotFound, r.w)
    ELSE IF IsDirMode(r.w.inodes[r.val].mode) THEN R(ErrIsDir, r.w)
    ELSE AgentLinkTo(resolveParentAndName(r.w, newpath), BaseName(newpath), r.val)

AgentLink(w, oldpath, newpath) == AgentLinkAt(resolvePath(w, oldpath), newpath)

\* AgentFile.Read: the bytes ReadData returns
AgentFileRead(w, ino, length, offset) == ReadData(w, ino, offset, length)

AgentFileWriteAt(r, ino, newSize) ==
    IF r.err # OK THEN r
    ELSE IF ~HasInode(r.w, ino) THEN R(DbErrNotFound, r.w)
    ELSE IF newSize > r.w.inodes[ino].size THEN R(OK, UpdateSize(r.w, ino, newSize))
    ELSE R(OK, UpdateTimes(r.w, ino, <<>>, <<r.w.clock>>))

\* AgentFile.Write
AgentFileWrite(w, ino, bytes, offset) ==
    AgentFileWriteAt(WriteData(w, ino, offset, bytes), ino, offset + Len(bytes))

\* AgentFile.Stat: its error
AgentFileStatErr(w, ino) == GetInodeErr(w, ino)

\* AgentFile.Truncate
AgentFileTruncate(w, ino, size) == R(OK, UpdateSize(StoreTruncate(w, ino, size), ino, size))

RECURSIVE EnsureFrom(_, _, _)

\* EnsureParentDirs at parts[:i], after Mkdir returned m
EnsureMade(m, path, i) ==
    IF m.err # OK /\ m.err # ErrExists THEN m ELSE EnsureFrom(m.w, path, i + 1)

\* EnsureParentDirs at parts[:i], after resolvePath returned r
EnsureAt(r, path, i) ==
    IF r.err = ErrNotFound THEN EnsureMade(AgentMkdir(r.w, Prefix(path, i), 493), path, i)
    ELSE IF r.err # OK THEN R(r.err, r.w)
    ELSE EnsureFrom(r.w, path, i + 1)

\* the loop of AgentFS.EnsureParentDirs from parts[:i] on
EnsureFrom(w, path, i) ==
    IF i >= Len(path) THEN R(OK, w) ELSE EnsureAt(resolvePath(w, Prefix(path, i)), path, i)

\* AgentFS.EnsureParentDirs
EnsureParentDirs(w, path) == EnsureFrom(w, path, 1)

\* the dentry of a new inode ino after its rows (data or symlink) were written and
\* its size set: "UpdateSizeTx ...; return CreateDentryTx(...)"
SizedDentry(r2, parent, name, ino, size) ==
    IF r2.err # OK THEN r2
    ELSE CreateDentryTx(UpdateSize(r2.w, ino, size), parent, name, ino)

\* CreateInodeTx with the mode, uid and gid of the base entry at path
BaseInodeTx(w, path) ==
    CreateInodeTx(w, w.base[path].mode, w.base[path].uid, w.base[path].gid)

\* the regular and the symlink branch of CopyFromBase assign the transaction's
\* error to a variable that shadows the one returned: the call returns nil and
\* the inode number the transaction had drawn, committed or not
Shadowed(t, ino) == RV(OK, t.w, ino)

\* the regular branch after f.Read returned rd
CopyRead(w, rd, parent, name, path) ==
    IF rd.err # OK THEN RV(rd.err, w, 0)
    ELSE Shadowed(WithTx(w, SizedDentry(writeDataTx(BaseInodeTx(w, path), w.nextIno, 0, rd.bytes),
                                        parent, name, w.nextIno, Len(rd.bytes))),
                  w.nextIno)

\* the regular branch after base.Open returned o
CopyRegular(o, parent, name, path) ==
    IF o.err # OK THEN RV(o.err, o.w, 0)
    ELSE CopyRead(o.w, OSFileRead(o.w.base, o.val, o.w.base[path].size, 0), parent, name, path)

\* CopyFromBase by the type of the base entry; the new inode is w.nextIno
CopyIn(w, parent, name, path) ==
    IF IsRegMode(w.base[path].mode)
    THEN CopyRegular(HostOpen(w, path, O_RDONLY), parent, name, path)
    ELSE IF IsLnkMode(w.base[path].mode)
    THEN Shadowed(WithTx(w, SizedDentry(CreateSymlinkTx(BaseInodeTx(w, path), w.nextIno,
                                                        w.base[path].target),
                                        parent, name, w.nextIno, Len(w.base[path].target))),
                  w.nextIno)
    ELSE IF IsDirMode(w.base[path].mode)
    THEN WithVal(WithTx(w, ThenIncrNlink(CreateDentryTx(BaseInodeTx(w, path), parent, name,
                                                        w.nextIno),
                                         parent)),
                 w.nextIno)
    ELSE RV(OK, w, 0)

CopyAt(r, path) ==
    IF r.err # OK THEN RV(r.err, r.w, 0) ELSE CopyIn(r.w, r.val, BaseName(path), path)

CopyEnsured(e, path) ==
    IF e.err # OK THEN RV(e.err, e.w, 0) ELSE CopyAt(resolveParentAndName(e.w, path), path)

\* AgentFS.CopyFromBase: val is the inode it returns
CopyFromBase(w, path) ==
    IF HostLstatErr(w.base, path) # OK THEN RV(HostLstatErr(w.base, path), w, 0)
    ELSE CopyEnsured(EnsureParentDirs(w, path), path)

-----------------------------------------------------------------------------
(* OverlayFS: the merged view *)

ExistsAt(d) == RV(OK, d.w, d.err = OK)

\* existsInDelta: val is the boolean (delta.Lstat may fill the dentry cache)
existsInDelta(w, path) == ExistsAt(AgentLstat(w, path))

existsInBase(w, path) == HostLstatErr(w.base, path) = OK

\* applyOrigin: the stats with the base inode when an origin is recorded
applyOrigin(w, stats) ==
    IF GetOrigin(w, stats.ino) # 0 THEN [stats EXCEPT !.ino = GetOrigin(w, stats.ino)] ELSE stats

\* HostFS.Lstat, Stat and Readlink as results
HostLstat(w, path) ==
    IF HostLstatErr(w.base, path) = OK THEN RV(OK, w, HostStats(w.base[path]))
    ELSE RV(HostLstatErr(w.base, path), w, 0)

HostStat(w, path) ==
    IF HostStatErr(w.base, path) = OK
    THEN RV(OK, w, HostStats(w.base[HostFollow(w.base, path)]))
    ELSE RV(HostStatErr(w.base, path), w, 0)

HostReadlink(w, path) ==
    IF HostReadlinkErr(w.base, path) = OK THEN RV(OK, w, w.base[path].target)
    ELSE RV(HostReadlinkErr(w.base, path), w, 0)

OverlayLstatAt(d, path) ==
    IF d.err = OK THEN RV(OK, d.w, applyOrigin(d.w, d.val)) ELSE HostLstat(d.w, path)

\* OverlayFS.Lstat: val is the stats
OverlayLstat(w, path) ==
    IF HasWhiteoutAncestor(w.trie, path) THEN RV(ErrNotFound, w, 0)
    ELSE OverlayLstatAt(AgentLstat(w, path), path)

OverlayStatAt(d, path) ==
    IF d.err = OK THEN RV(OK, d.w, applyOrigin(d.w, d.val)) ELSE HostStat(d.w, path)

\* OverlayFS.Stat: delta.Stat is delta.Lstat, base.Stat follows a symlink
OverlayStat(w, path) ==
    IF HasWhiteoutAncestor(w.trie, path) THEN RV(ErrNotFound, w, 0)
    ELSE OverlayStatAt(AgentLstat(w, path), path)

OverlayReadlinkAt(d, path) == IF d.err = OK THEN d ELSE HostReadlink(d.w, path)

\* OverlayFS.Readlink: val is the target
OverlayReadlink(w, path) ==
    IF HasWhiteoutAncestor(w.trie, path) THEN RV(ErrNotFound, w, 0)
    ELSE OverlayReadlinkAt(AgentReadlink(w, path), path)

\* a merge that lets whited-out base entries through
MergeIgnoringWhiteoutsAs(deltaEntries, baseEntries, wh) ==
    deltaEntries \cup {e \in baseEntries : ~\E x \in deltaEntries : x.name = e.name}

\* the merge of Readdir: the delta entries, then the base entries that are
\* neither whited out nor overridden
MergeEntries(deltaEntries, baseEntries, wh) ==
    deltaEntries \cup
    {e \in baseEntries : e.name \notin wh /\ ~\E x \in deltaEntries : x.name = e.name}

OverlayReaddirAt(d, path, wh) ==
    RV(OK, d.w,
       MergeEntries(IF d.err = OK THEN d.val ELSE {},
                    IF HostReaddirErr(d.w.base, path) = OK THEN HostReaddir(d.w.base, path) ELSE {},
                    wh))

\* OverlayFS.Readdir: val is the set of merged entries
OverlayReaddir(w, path) ==
    IF HasWhiteoutAncestor(w.trie, path) THEN RV(ErrNotFound, w, {})
    ELSE OverlayReaddirAt(AgentReaddir(w, path), path, GetChildWhiteouts(w.trie, path))

OverlayAccessAt(d, path) ==
    IF d.err = OK THEN R(OK, d.w) ELSE R(HostAccessErr(d.w.base, path), d.w)

\* OverlayFS.Access
OverlayAccess(w, path) ==
    IF HasWhiteoutAncestor(w.trie, path) THEN R(ErrNotFound, w)
    ELSE OverlayAccessAt(AgentAccess(w, path), path)

\* the check on the parent that Mkdir, Create and Symlink start with
ParentWhitedOut(w, path) == Len(path) > 1 /\ HasWhiteoutAncestor(w.trie, ParentOf(path))

\* an erasure that forgets the table row
ClearWhiteoutIndexOnlyAs(w, path) == [w EXCEPT !.trie = TrieRemove(w.trie, path)]

\* "remove whiteout if this path was deleted": the table row, then the trie
ClearWhiteout(w, path) ==
    IF HasExactWhiteout(w.trie, path)
    THEN [DeleteWhiteout(w, path) EXCEPT !.trie = TrieRemove(w.trie, path)]
    ELSE w

\* Store.CreateWhiteout, then WhiteoutCache.Insert
AddWhiteout(w, path) == [CreateWhiteout(w, path) EXCEPT !.trie = TrieInsert(w.trie, path)]

\* "if inBase { CreateWhiteout; Insert }" after the delta step returned r
ThenWhiteout(r, path, inBase) ==
    IF r.err # OK THEN r
    ELSE IF inBase THEN R(OK, AddWhiteout(r.w, path))
    ELSE r

\* the mode ensureParentDirs makes a missing parent with
ParentMode(w, parentPath) ==
    IF existsInBase(w, parentPath) /\ IsDirMode(w.base[parentPath].mode)
    THEN PermOf(w.base[parentPath].mode) ELSE 493

RECURSIVE ensureParentDirsFrom(_, _, _)

ensureDirMade(m, path, i) ==
    IF m.err # OK /\ m.err # ErrExists THEN m ELSE ensureParentDirsFrom(m.w, path, i + 1)

ensureDirAt(x, path, i) ==
    IF x.val THEN ensureParentDirsFrom(x.w, path, i + 1)
    ELSE ensureDirMade(AgentMkdir(x.w, Prefix(path, i), ParentMode(x.w, Prefix(path, i))),
                       path, i)

\* the loop of OverlayFS.ensureParentDirs from parts[:i] on
ensureParentDirsFrom(w, path, i) ==
    IF i >= Len(path) THEN R(OK, w)
    ELSE ensureDirAt(existsInDelta(w, Prefix(path, i)), path, i)

ensureParentDirs(w, path) == ensureParentDirsFrom(w, path, 1)

copyOnWriteCopied(c, path) ==
    IF c.err # OK THEN R(c.err, c.w) ELSE AddOrigin(c.w, c.val, c.w.base[path].ino)

copyOnWriteAt(x, path) ==
    IF x.val THEN R(OK, x.w)
    ELSE IF HostLstatErr(x.w.base, path) # OK THEN R(HostLstatErr(x.w.base, path), x.w)
    ELSE copyOnWriteCopied(CopyFromBase(x.w, path), path)

\* OverlayFS.copyOnWrite
copyOnWrite(w, path) == copyOnWriteAt(existsInDelta(w, path), path)

OverlayMkdirAt(e, path, mode) == IF e.err # OK THEN e ELSE AgentMkdir(e.w, path, mode)

OverlayMkdir(w, path, mode) ==
    IF ParentWhitedOut(w, path) THEN R(ErrNotFound, w)
    ELSE OverlayMkdirAt(ensureParentDirs(ClearWhiteout(w, path), path), path, mode)

OverlayRmdirAt(x, path) ==
    IF ~x.val /\ ~existsInBase(x.w, path) THEN R(ErrNotFound, x.w)
    ELSE ThenWhiteout(IF x.val THEN AgentRmdir(x.w, path) ELSE R(OK, x.w),
                      path, existsInBase(x.w, path))

OverlayRmdir(w, path) ==
    IF HasWhiteoutAncestor(w.trie, path) THEN R(ErrNotFound, w)
    ELSE OverlayRmdirAt(existsInDelta(w, path), path)

\* "if ino, err := GetIno(path); err == nil { DeleteOrigin(ino) }", then delta.Remove
RemoveInDelta(g, path) ==
    AgentRemove(IF g.err = OK THEN DeleteOrigin(g.w, g.val) ELSE g.w, path)

OverlayRemoveAt(x, path) ==
    IF ~x.val /\ ~existsInBase(x.w, path) THEN R(ErrNotFound, x.w)
    ELSE ThenWhiteout(IF x.val THEN RemoveInDelta(GetIno(x.w, path), path) ELSE R(OK, x.w),
                      path, existsInBase(x.w, path))

OverlayRemove(w, path) ==
    IF HasWhiteoutAncestor(w.trie, path) THEN R(ErrNotFound, w)
    ELSE OverlayRemoveAt(existsInDelta(w, path), path)

\* an OverlayFile: base and delta are <<>> for nil, <<q>> for an open host
\* file at host path q, <<ino>> for an AgentFile on inode ino
OverlayFile(path, b, d) == [path |-> path, base |-> b, delta |-> d, copiedToDelta |-> FALSE]

AddFile(w, f) == [w EXCEPT !.files = Append(@, f)]

\* "return &OverlayFile{path: path, delta: f}": the new handle is the last of files
DeltaHandle(c, path) ==
    IF c.err # OK THEN R(c.err, c.w)
    ELSE R(OK, AddFile(c.w, OverlayFile(path, <<>>, <<c.val>>)))

\* "return &OverlayFile{path: path, base: f}"
BaseHandle(o, path) ==
    IF o.err # OK THEN R(o.err, o.w)
    ELSE R(OK, AddFile(o.w, OverlayFile(path, <<o.val>>, <<>>)))

OverlayCreateAt(e, path, mode) ==
    IF e.err # OK THEN e ELSE DeltaHandle(AgentCreate(e.w, path, mode), path)

OverlayCreate(w, path, mode) ==
    IF ParentWhitedOut(w, path) THEN R(ErrNotFound, w)
    ELSE OverlayCreateAt(ensureParentDirs(ClearWhiteout(w, path), path), path, mode)

writeNeeded(flags) == flags \cap (O_WRONLY \cup O_RDWR \cup O_TRUNC \cup O_APPEND) # {}

\* the tail of OverlayFS.Open: open from the appropriate layer
OpenLayer(w, path, flags, inDelta) ==
    IF inDelta THEN DeltaHandle(AgentOpen(w, path, flags), path)
    ELSE BaseHandle(HostOpen(w, path, O_RDONLY), path)

OverlayOpenCopied(c, path, flags) ==
    IF c.err # OK THEN c ELSE OpenLayer(c.w, path, flags, TRUE)

\* an Open that writes where the file is: no copy-up, the flags go to the base
OverlayOpenInPlaceAs(x, path, flags) ==
    IF ~x.val /\ ~existsInBase(x.w, path) THEN R(ErrNotFound, x.w)
    ELSE IF x.val THEN OpenLayer(x.w, path, flags, TRUE)
    ELSE BaseHandle(HostOpen(x.w, path, flags), path)

OverlayOpenAt(x, path, flags) ==
    IF ~x.val /\ ~existsInBase(x.w, path) THEN R(ErrNotFound, x.w)
    ELSE IF writeNeeded(flags) /\ ~x.val /\ existsInBase(x.w, path)
    THEN OverlayOpenCopied(copyOnWrite(x.w, path), path, flags)
    ELSE OpenLayer(x.w, path, flags, x.val)

\* OverlayFS.Open: the new handle is the last of files
OverlayOpen(w, path, flags) ==
    IF HasWhiteoutAncestor(w.trie, path) THEN R(ErrNotFound, w)
    ELSE OverlayOpenAt(existsInDelta(w, path), path, flags)

OverlayRenameEnsured(e, oldpath, newpath, inBase) ==
    IF e.err # OK THEN e
    ELSE ThenWhiteout(AgentRename(ClearWhiteout(e.w, newpath), oldpath, newpath),
                      oldpath, inBase)

OverlayRenameCopied(c, oldpath, newpath, inBase) ==
    IF c.err # OK THEN c
    ELSE OverlayRenameEnsured(ensureParentDirs(c.w, newpath), oldpath, newpath, inBase)

OverlayRenameAt(x, oldpath, newpath) ==
    IF ~x.val /\ ~existsInBase(x.w, oldpath) THEN R(ErrNotFound, x.w)
    ELSE OverlayRenameCopied(IF ~x.val THEN copyOnWrite(x.w, oldpath) ELSE R(OK, x.w),
                             oldpath, newpath, existsInBase(x.w, oldpath))

OverlayRename(w, oldpath, newpath) ==
    IF HasWhiteoutAncestor(w.trie, oldpath) THEN R(ErrNotFound, w)
    ELSE OverlayRenameAt(existsInDelta(w, oldpath), oldpath, newpath)

CopyFirstAt(x, path) ==
    IF x.val THEN R(OK, x.w)
    ELSE IF ~existsInBase(x.w, path) THEN R(ErrNotFound, x.w)
    ELSE copyOnWrite(x.w, path)

\* "if only in base, copy first": the start of Chmod, Chown, Truncate, Utimens, Link
CopyFirst(w, path) ==
    IF HasWhiteoutAncestor(w.trie, path) THEN R(ErrNotFound, w)
    ELSE CopyFirstAt(existsInDelta(w, path), path)

OverlayChmodAt(c, path, mode) == IF c.err # OK THEN c ELSE AgentChmod(c.w, path, mode)
OverlayChmod(w, path, mode) == OverlayChmodAt(CopyFirst(w, path), path, mode)

OverlayChownAt(c, path, uid, gid) == IF c.err # OK THEN c ELSE AgentChown(c.w, path, uid, gid)
OverlayChown(w, path, uid, gid) == OverlayChownAt(CopyFirst(w, path), path, uid, gid)

OverlayTruncateAt(c, path, size) == IF c.err # OK THEN c ELSE AgentTruncate(c.w, path, size)
OverlayTruncate(w, path, size) == OverlayTruncateAt(CopyFirst(w, path), path, size)

OverlayUtimensAt(c, path, at, mt) == IF c.err # OK THEN c ELSE AgentUtimens(c.w, path, at, mt)
OverlayUtimens(w, path, at, mt) == OverlayUtimensAt(CopyFirst(w, path), path, at, mt)

OverlaySymlinkAt(e, target, linkpath) ==
    IF e.err # OK THEN e ELSE AgentSymlink(e.w, target, linkpath)

OverlaySymlink(w, target, linkpath) ==
    IF ParentWhitedOut(w, linkpath) THEN R(ErrNotFound, w)
    ELSE OverlaySymlinkAt(ensureParentDirs(ClearWhiteout(w, linkpath), linkpath),
                          target, linkpath)

OverlayLinkEnsured(e, oldpath, newpath) ==
    IF e.err # OK THEN e ELSE AgentLink(e.w, oldpath, newpath)

OverlayLinkAt(c, oldpath, newpath) ==
    IF c.err # OK THEN c
    ELSE OverlayLinkEnsured(ensureParentDirs(ClearWhiteout(c.w, newpath), newpath),
                            oldpath, newpath)

OverlayLink(w, oldpath, newpath) == OverlayLinkAt(CopyFirst(w, oldpath), oldpath, newpath)

-----------------------------------------------------------------------------
(* OverlayFile: the handle files[i] *)

\* OverlayFile.Read: the error and the bytes
FileRead(w, i, length, offset) ==
    IF w.files[i].delta # <<>>
    THEN [err |-> OK, bytes |-> AgentFileRead(w, w.files[i].delta[1], length, offset)]
    ELSE IF w.files[i].base # <<>> THEN OSFileRead(w.base, w.files[i].base[1], length, offset)
    ELSE [err |-> ErrNotFound, bytes |-> <<>>]

ensureDeltaOpened(o, i) ==
    IF o.err # OK THEN R(o.err, o.w)
    ELSE R(OK, [o.w EXCEPT !.files[i] =
                    [@ EXCEPT !.base = <<>>, !.delta = <<o.val>>, !.copiedToDelta = TRUE]])

ensureDeltaCopied(c, i) ==
    IF c.err # OK THEN c ELSE ensureDeltaOpened(AgentOpen(c.w, c.w.files[i].path, O_RDWR), i)

\* OverlayFile.ensureDelta
ensureDelta(w, i) ==
    IF w.files[i].copiedToDelta THEN R(OK, w)
    ELSE ensureDeltaCopied(copyOnWrite(w, w.files[i].path), i)

\* "if f.delta == nil { ensureDelta }"
EnsuredDelta(w, i) == IF w.files[i].delta = <<>> THEN ensureDelta(w, i) ELSE R(OK, w)

FileWriteAt(e, i, bytes, offset) ==
    IF e.err # OK THEN e ELSE AgentFileWrite(e.w, e.w.files[i].delta[1], bytes, offset)

\* OverlayFile.Write
FileWrite(w, i, bytes, offset) == FileWriteAt(EnsuredDelta(w, i), i, bytes, offset)

FileTruncateAt(e, i, size) ==
    IF e.err # OK THEN e ELSE AgentFileTruncate(e.w, e.w.files[i].delta[1], size)

\* OverlayFile.Truncate
FileTruncate(w, i, size) == FileTruncateAt(EnsuredDelta(w, i), i, size)

\* OverlayFile.Stat: val is the stats
FileStat(w, i) ==
    IF w.files[i].delta # <<>>
    THEN IF AgentFileStatErr(w, w.files[i].delta[1]) # OK
         THEN RV(AgentFileStatErr(w, w.files[i].delta[1]), w, 0)
         ELSE RV(OK, w, applyOrigin(w, InodeToStats(w, w.files[i].delta[1])))
    ELSE IF w.files[i].base # <<>> THEN RV(OK, w, HostStats(w.base[w.files[i].base[1]]))
    ELSE RV(ErrNotFound, w, 0)

\* OverlayFile.Close, and the handle is dropped
FileClose(w, i) ==
    [w EXCEPT !.files = SubSeq(@, 1, i - 1) \o SubSeq(@, i + 1, Len(@))]

\* NewOverlayFS over a fresh NewAgentFS on the same store: the trie is loaded
\* from the whiteout table, the dentry cache is empty, no file is open
Reopen(w) == [w EXCEPT !.trie = LoadFromPaths(ListWhiteouts(w)), !.cache = EmptyFn, !.files = <<>>]

-----------------------------------------------------------------------------
(* The system: one OverlayFS over a host tree and a store *)

\* what the host reports for an entry of the base tree
HostEntry(mode, ino, content, target, dest) ==
    [mode |-> mode, ino |-> ino, nlink |-> IF IsDirMode(mode) THEN 2 ELSE 1,
     uid |-> 1000, gid |-> 1000,
     size |-> IF IsLnkMode(mode) THEN Len(target) ELSE Len(content),
     atime |-> 1, mtime |-> 1, ctime |-> 1,
     content |-> content, target |-> target, dest |-> dest]

\* the host tree: /, a directory /a with a regular file /a/a, a symlink /b -> a/a
BaseTree ==
    (<<>> :> HostEntry(16877, 10, <<>>, <<>>, <<>>))
    @@ (<<"a">> :> HostEntry(16877, 11, <<>>, <<>>, <<>>))
    @@ (<<"a", "a">> :> HostEntry(33188, 12, <<5, 6, 7>>, <<>>, <<>>))
    @@ (<<"b">> :> HostEntry(41471, 13, <<>>, <<"a", "/", "a">>, <<"a", "a">>))

\* initSchema: the root inode 1, a directory with nlink 2
RootInode == [NewInode(16877, 0, 0, 2) EXCEPT !.nlink = 2]

Init ==
    /\ base = BaseTree
    /\ inodes = (1 :> RootInode)
    /\ dentries = EmptyFn
    /\ data = EmptyFn
    /\ symlinks = EmptyFn
    /\ whiteouts = EmptyFn
    /\ origins = EmptyFn
    /\ nextIno = 2
    /\ trie = LoadFromPaths({})
    /\ cache = EmptyFn
    /\ files = <<>>
    /\ clock = 2
    /\ calls = 0
    /\ threads = <<>>

\* the next state holds the layers, tables and in-memory structures of w
Install(w) ==
    /\ base' = w.base
    /\ inodes' = w.inodes
    /\ dentries' = w.dentries
    /\ data' = w.data
    /\ symlinks' = w.symlinks
    /\ whiteouts' = w.whiteouts
    /\ origins' = w.origins
    /\ nextIno' = w.nextIno
    /\ trie' = w.trie
    /\ cache' = w.cache
    /\ files' = w.files
    /\ clock' = w.clock

\* the state after a call that leaves w; calls and open files stay within bounds
Commit(w) ==
    /\ calls < MaxCalls
    /\ calls' = calls + 1
    /\ threads' = threads
    /\ Len(w.files) <= MaxFiles
    /\ Install(w)

\* the inputs the operations are tried with
CreateModes == {420}
DirModes == {493}
ChmodModes == {384}
Owners == {7}
Sizes == {0, 1}
Times == {<<>>, <<1>>}
Targets == {<<"a">>}
OpenFlags == {O_RDONLY, O_RDWR, O_WRONLY \cup O_TRUNC}
WriteBytes == {<<9>>}
WriteOffsets == {0, 4}

Lstat == \E p \in Paths : Commit(OverlayLstat(World, p).w)
Stat == \E p \in Paths : Commit(OverlayStat(World, p).w)
Readlink == \E p \in Paths : Commit(OverlayReadlink(World, p).w)
Readdir == \E p \in Paths : Commit(OverlayReaddir(World, p).w)
Access == \E p \in Paths : Commit(OverlayAccess(World, p).w)
Mkdir == \E p \in Paths, m \in DirModes : Commit(OverlayMkdir(World, p, m).w)
Rmdir == \E p \in Paths : Commit(OverlayRmdir(World, p).w)
Create == \E p \in Paths, m \in CreateModes : Commit(OverlayCreate(World, p, m).w)
Open == \E p \in Paths, fl \in OpenFlags : Commit(OverlayOpen(World, p, fl).w)
Remove == \E p \in Paths : Commit(OverlayRemove(World, p).w)
Rename == \E p \in Paths, q \in Paths : Commit(OverlayRename(World, p, q).w)
Chmod == \E p \in Paths, m \in ChmodModes : Commit(OverlayChmod(World, p, m).w)
Chown == \E p \in Paths, u \in Owners : Commit(OverlayChown(World, p, u, u).w)
Truncate == \E p \in Paths, s \in Sizes : Commit(OverlayTruncate(World, p, s).w)
Utimens == \E p \in Paths, a \in Times, m \in Times : Commit(OverlayUtimens(World, p, a, m).w)
Symlink == \E p \in Paths, tg \in Targets : Commit(OverlaySymlink(World, tg, p).w)
Link == \E p \in Paths, q \in Paths : Commit(OverlayLink(World, p, q).w)
Write ==
    \E i \in 1..Len(files), d \in WriteBytes, off \in WriteOffsets :
        Commit(FileWrite(World, i, d, off).w)
FTruncate == \E i \in 1..Len(files), s \in Sizes : Commit(FileTruncate(World, i, s).w)
FStat == \E i \in 1..Len(files) : Commit(FileStat(World, i).w)
Close == \E i \in 1..Len(files) : Commit(FileClose(World, i))
\* the process ends and the overlay is mounted again over the same store
Remount == Commit(Reopen(World))

Next ==
    \/ Lstat \/ Stat \/ Readlink \/ Readdir \/ Access
    \/ Mkdir \/ Rmdir \/ Create \/ Open \/ Remove \/ Rename
    \/ Chmod \/ Chown \/ Truncate \/ Utimens \/ Symlink \/ Link
    \/ Write \/ FTruncate \/ FStat \/ Close \/ Remount

Spec == Init /\ [][Next]_vars

-----------------------------------------------------------------------------
(* The merged view, read off the tables: what the layers hold *)

\* the inode the dentry table leads to from the root along path, 0 if none
RECURSIVE WalkFrom(_, _, _, _)
WalkFrom(w, path, i, ino) ==
    IF i > Len(path) THEN ino
    ELSE IF ~HasDentry(w, ino, path[i]) THEN 0
    ELSE WalkFrom(w, path, i + 1, w.dentries[<<ino, path[i]>>])

DeltaIno(w, path) == WalkFrom(w, path, 1, 1)

\* path is present in the delta: its dentries and its inode row exist
InDelta(w, path) == DeltaIno(w, path) # 0 /\ HasInode(w, DeltaIno(w, path))

\* path is present in the base
InBase(w, path) == HostExists(w.base, path)

\* a whiteout row exists for path
WhitedOut(w, path) == path \in ListWhiteouts(w)

\* a proper ancestor of path is whited out
AncestorWhitedOut(w, path) == \E i \in 1..(Len(path) - 1) : WhitedOut(w, Prefix(path, i))

\* path is visible in the merged view
Visible(w, path) ==
    \/ InDelta(w, path) /\ ~AncestorWhitedOut(w, path)
    \/ InBase(w, path) /\ ~AncestorWhitedOut(w, path) /\ ~WhitedOut(w, path)

-----------------------------------------------------------------------------
(* Claims *)

\* C1: merge correctness.  In every reachable state and for every path p,
\* Lstat(p) succeeds iff p is in the delta with no ancestor whited out, or p is
\* in the base with no ancestor whited out and no whiteout of its own.
C1_MergeCorrectness ==
    \A p \in Paths : (OverlayLstat(World, p).err = OK) <=> Visible(World, p)

\* C2: the base layer is never modified.  No call of the filesystem interface
\* or of a file handle changes the host tree: names, types, contents and
\* attributes of the base are the same after the call as before it.
C2_BaseNeverModified == [][base' = base]_vars

\* C2's case: a base-only file was opened with O_TRUNC, its copy in the delta is
\* empty, and the host file still has its bytes
C2_Witness ==
    \E i \in 1..Len(files) :
        /\ files[i].path = <<"a", "a">>
        /\ files[i].delta # <<>>
        /\ HasInode(World, files[i].delta[1])
        /\ GetOrigin(World, files[i].delta[1]) = base[<<"a", "a">>].ino
        /\ inodes[files[i].delta[1]].size = 0
        /\ base[<<"a", "a">>].content = <<5, 6, 7>>

\* the bytes a whole-file read returns after bytes d were written at offset off
\* to content C: C with [off, off + Len(d)) replaced, zeros in a gap past the end
Patched(C, d, off) ==
    [k \in 1..Max2(Len(C), off + Len(d)) |->
        IF k > off /\ k <= off + Len(d) THEN d[k - off]
        ELSE IF k <= Len(C) THEN C[k] ELSE 0]

\* the whole-file read through the newest handle after a write of d at off through it
ReadAfterWrite(w, C, d, off) ==
    FileRead(FileWrite(w, Len(w.files), d, off).w, Len(w.files),
             Max2(Len(C), off + Len(d)), 0)

\* path is a regular file present only in the base, and visible
BaseOnlyFile(w, path) ==
    /\ InBase(w, path) /\ IsRegMode(w.base[path].mode)
    /\ ~InDelta(w, path)
    /\ OverlayLstat(w, path).err = OK

\* C3: copy-on-write through a handle.  For a regular file only in the base
\* with content C, opened read-only or read-write, a Write(d, off) through the
\* handle that succeeds is followed by a whole-file Read through the handle that
\* returns C with the range [off, off + Len(d)) replaced by d.
C3_CopyOnWriteThroughHandle ==
    \A p \in Paths, fl \in {O_RDONLY, O_RDWR}, d \in WriteBytes, off \in WriteOffsets :
        (/\ BaseOnlyFile(World, p)
         /\ OverlayOpen(World, p, fl).err = OK
         /\ FileWrite(OverlayOpen(World, p, fl).w, Len(files) + 1, d, off).err = OK)
        => /\ ReadAfterWrite(OverlayOpen(World, p, fl).w, base[p].content, d, off).err = OK
           /\ ReadAfterWrite(OverlayOpen(World, p, fl).w, base[p].content, d, off).bytes
                = Patched(base[p].content, d, off)

\* the names Readdir lists for path
Listed(w, path) == {e.name : e \in OverlayReaddir(w, path).val}

\* the postcondition of a Remove(p) that took w to w2
Unlinked(w, w2, p) ==
    /\ OverlayLstat(w2, p).err = ErrNotFound
    /\ BaseName(p) \notin Listed(w2, ParentOf(p))
    /\ ~InDelta(w2, p)
    /\ InBase(w, p) => (WhitedOut(w2, p) /\ HasExactWhiteout(w2.trie, p))

\* C4: unlink whiteout protocol.  After a successful Remove(p) of a visible
\* path, Lstat(p) fails with not-found, Readdir of the parent does not list the
\* name, the delta has no entry at p, and a whiteout for p exists (table and
\* trie) if p was in the base.
C4_UnlinkWhiteout ==
    \A p \in Paths :
        (OverlayLstat(World, p).err = OK /\ OverlayRemove(World, p).err = OK)
        => Unlinked(World, OverlayRemove(World, p).w, p)

\* path is a visible directory with a child visible in the merged view
VisibleNonEmptyDir(w, path) ==
    /\ OverlayLstat(w, path).err = OK
    /\ IsDirMode(OverlayLstat(w, path).val.mode)
    /\ \E n \in Names : Len(path) < 2 /\ OverlayLstat(w, Append(path, n)).err = OK

\* C5: Rmdir of a directory with a visible child fails with not-empty and
\* changes nothing in the store or the whiteout trie.
C5_RmdirNotEmpty ==
    \A p \in Paths :
        VisibleNonEmptyDir(World, p)
        => /\ OverlayRmdir(World, p).err = ErrNotEmpty
           /\ OverlayRmdir(World, p).w = World

\* the bytes a whole-file read of path returns through a fresh read-only handle
ContentOf(w, path, n) ==
    FileRead(OverlayOpen(w, path, O_RDONLY).w, Len(w.files) + 1, n, 0).bytes

\* the postcondition of a Rename(src, dst) that took w to w2
Renamed(w, w2, src, dst) ==
    /\ OverlayLstat(w2, src).err = ErrNotFound
    /\ OverlayLstat(w2, dst).err = OK
    /\ InDelta(w2, dst)
    /\ TypeOf(OverlayLstat(w2, dst).val.mode) = TypeOf(OverlayLstat(w, src).val.mode)
    /\ BaseOnlyFile(w, src)
         => ContentOf(w2, dst, Len(w.base[src].content)) = w.base[src].content
    /\ InBase(w, src) => (WhitedOut(w2, src) /\ HasExactWhiteout(w2.trie, src))
    /\ BaseName(dst) \in Listed(w2, ParentOf(dst))
    /\ BaseName(src) \notin Listed(w2, ParentOf(src))

\* C6: rename across layers.  After a successful Rename(src, dst), src # dst,
\* of a visible src: Lstat(src) is not-found, Lstat(dst) succeeds, the delta
\* holds at dst what was visible at src (a base-only regular file's content is
\* copied), src has a whiteout if it was in the base, and Readdir lists dst's
\* name under its parent and no longer src's name under its parent.
C6_RenameAcrossLayers ==
    \A src \in Paths, dst \in Paths :
        (/\ src # dst
         /\ OverlayLstat(World, src).err = OK
         /\ OverlayRename(World, src, dst).err = OK)
        => Renamed(World, OverlayRename(World, src, dst).w, src, dst)

\* the six persistent tables of a state
Tables(w) ==
    [inodes |-> w.inodes, dentries |-> w.dentries, data |-> w.data,
     symlinks |-> w.symlinks, whiteouts |-> w.whiteouts, origins |-> w.origins]

\* a call with result r from state w that failed left the tables as they were
Atomic(w, r) == r.err # OK => Tables(r.w) = Tables(w)

\* C7: all-or-nothing per operation.  A call of Rename, Remove, Rmdir, Create,
\* Mkdir, Symlink, Link, Chmod, Chown, Truncate, Utimens, Open with O_TRUNC or
\* a handle Write that returns an error leaves the persistent tables (inodes,
\* dentries, data, symlinks, whiteouts, origins) exactly as they were.
C7_AllOrNothing ==
    /\ \A p \in Paths, q \in Paths :
        /\ Atomic(World, OverlayRename(World, p, q))
        /\ Atomic(World, OverlayLink(World, p, q))
    /\ \A p \in Paths :
        /\ Atomic(World, OverlayRemove(World, p))
        /\ Atomic(World, OverlayRmdir(World, p))
        /\ \A m \in CreateModes : Atomic(World, OverlayCreate(World, p, m))
        /\ \A m \in DirModes : Atomic(World, OverlayMkdir(World, p, m))
        /\ \A tg \in Targets : Atomic(World, OverlaySymlink(World, tg, p))
        /\ \A m \in ChmodModes : Atomic(World, OverlayChmod(World, p, m))
        /\ \A u \in Owners : Atomic(World, OverlayChown(World, p, u, u))
        /\ \A s \in Sizes : Atomic(World, OverlayTruncate(World, p, s))
        /\ \A a \in Times, m \in Times : Atomic(World, OverlayUtimens(World, p, a, m))
        /\ Atomic(World, OverlayOpen(World, p, O_WRONLY \cup O_TRUNC))
    /\ \A i \in 1..Len(files), d \in WriteBytes, off \in WriteOffsets :
        Atomic(World, FileWrite(World, i, d, off))

\* two results of a read-only operation agree: same error, same value on success
SameResult(r, s) == r.err = s.err /\ (r.err = OK => r.val = s.val)

\* a whole-file read of path through a fresh read-only handle: the error of the
\* Open, then the error and the bytes of the Read
ReadWhole(w, path) ==
    IF OverlayOpen(w, path, O_RDONLY).err # OK
    THEN [open |-> OverlayOpen(w, path, O_RDONLY).err, err |-> OK, bytes |-> <<>>]
    ELSE [open |-> OK,
          err |-> FileRead(OverlayOpen(w, path, O_RDONLY).w, Len(w.files) + 1, 6, 0).err,
          bytes |-> FileRead(OverlayOpen(w, path, O_RDONLY).w, Len(w.files) + 1, 6, 0).bytes]

\* the merged views of w and v agree on every path
SameView(w, v) ==
    \A p \in Paths :
        /\ SameResult(OverlayLstat(w, p), OverlayLstat(v, p))
        /\ SameResult(OverlayReadlink(w, p), OverlayReadlink(v, p))
        /\ SameResult(OverlayReaddir(w, p), OverlayReaddir(v, p))
        /\ ReadWhole(w, p) = ReadWhole(v, p)

NotCopiedUp(w, path) ==
    InBase(w, path) /\ ~InDelta(w, path) /\ OverlayLstat(w, path).err = OK

\* path is in the delta as the copy of the base entry at path
CopiedUp(w, path) ==
    /\ InBase(w, path) /\ InDelta(w, path)
    /\ GetOrigin(w, DeltaIno(w, path)) = w.base[path].ino
    /\ OverlayLstat(w, path).err = OK

\* a successful call with result r from w that left the file of p at q reports
\* there the inode numbers that Lstat and Stat reported at p before it
SameIno(w, r, p, q) ==
    (r.err = OK /\ InDelta(r.w, q))
    => /\ OverlayLstat(r.w, q).err = OK
       /\ OverlayLstat(r.w, q).val.ino = OverlayLstat(w, p).val.ino
       /\ OverlayStat(w, p).err = OK =>
            /\ OverlayStat(r.w, q).err = OK
            /\ OverlayStat(r.w, q).val.ino = OverlayStat(w, p).val.ino

\* the calls on p that copy it up or change its copy keep the inode number
StableUnder(w, p) ==
    /\ \A fl \in {O_RDWR, O_WRONLY \cup O_TRUNC} : SameIno(w, OverlayOpen(w, p, fl), p, p)
    /\ \A d \in WriteBytes, off \in WriteOffsets :
        OverlayOpen(w, p, O_RDONLY).err = OK
        => SameIno(w, FileWrite(OverlayOpen(w, p, O_RDONLY).w, Len(w.files) + 1, d, off), p, p)
    /\ \A s \in Sizes : SameIno(w, OverlayTruncate(w, p, s), p, p)
    /\ \A m \in ChmodModes : SameIno(w, OverlayChmod(w, p, m), p, p)
    /\ \A u \in Owners : SameIno(w, OverlayChown(w, p, u, u), p, p)
    /\ \A a \in Times, m \in Times : SameIno(w, OverlayUtimens(w, p, a, m), p, p)
    /\ \A q \in Paths : SameIno(w, OverlayLink(w, p, q), p, p)
    /\ \A q \in Paths \ {p} : SameIno(w, OverlayRename(w, p, q), p, q)

\* C10: copy-up inode stability.  For every base path p, the inode number that
\* Stat(p) and Lstat(p) report before the copy-up is the one they report after
\* it, for every call that copies p up (open for write, write through a
\* base-backed handle, truncate, chmod, chown, utimens, link source, rename
\* source), and after every later such call on the copied-up file.
C10_InodeStability ==
    \A p \in Paths : (NotCopiedUp(World, p) \/ CopiedUp(World, p)) => StableUnder(World, p)

-----------------------------------------------------------------------------
(* The whiteout trie on its own: LoadFromPaths, then Insert and Remove calls *)
(* in any order.  The whiteouts variable holds the set S of the paths that   *)
(* the same inserts and removes leave, as the keys of the table.             *)

\* the sets of paths a trie is loaded from
Seeds == SUBSET {<<"a">>, <<"a", "b">>, <<"b", "a">>}

SetOf(S) == [p \in S |-> ParentOf(p)]

InitTrie ==
    /\ base = BaseTree
    /\ inodes = (1 :> RootInode)
    /\ dentries = EmptyFn
    /\ data = EmptyFn
    /\ symlinks = EmptyFn
    /\ origins = EmptyFn
    /\ nextIno = 2
    /\ cache = EmptyFn
    /\ files = <<>>
    /\ clock = 2
    /\ calls = 0
    /\ threads = <<>>
    /\ \E S0 \in Seeds : whiteouts = SetOf(S0) /\ trie = LoadFromPaths(S0)

TrieStep(t, S) ==
    /\ trie' = t
    /\ whiteouts' = SetOf(S)
    /\ UNCHANGED <<base, inodes, dentries, data, symlinks, origins, nextIno, cache,
                   files, clock, calls, threads>>

CacheLoad == \E S0 \in Seeds : TrieStep(LoadFromPaths(S0), S0)
CacheInsert == \E p \in TriePaths : TrieStep(TrieInsert(trie, p), DOMAIN whiteouts \cup {p})
CacheRemove == \E p \in TriePaths : TrieStep(TrieRemove(trie, p), DOMAIN whiteouts \ {p})

NextTrie == CacheLoad \/ CacheInsert \/ CacheRemove

SpecTrie == InitTrie /\ [][NextTrie]_vars

\* the trie t answers every query as the set S of paths does
TrieIsSet(t, S) ==
    /\ \A p \in TriePaths :
        /\ HasExactWhiteout(t, p) <=> p \in S
        /\ HasWhiteoutAncestor(t, p) <=> \E i \in 0..Len(p) : Prefix(p, i) \in S
        /\ GetChildWhiteouts(t, p) = {n \in Names : Append(p, n) \in S}
    /\ GetAllWhiteouts(t) = S

-----------------------------------------------------------------------------
(* Concurrent calls that each copy up the same base-only path.  A call is    *)
(* three steps: its checks (whiteout ancestor, existsInDelta, existsInBase), *)
(* made without a lock; copyOnWrite, one step because it holds the mutex     *)
(* o.mu from its re-check to its AddOrigin; and the rest of the call on the  *)
(* delta.  The steps of different calls interleave in any order.             *)

RacePath == <<"a", "a">>
RaceDest == <<"a", "b">>
RaceIds == {1, 2}
RaceOps == {"chmod", "truncate", "rename", "link", "open", "write"}

InitWorld ==
    [base |-> BaseTree, inodes |-> (1 :> RootInode), dentries |-> EmptyFn,
     data |-> EmptyFn, symlinks |-> EmptyFn, whiteouts |-> EmptyFn,
     origins |-> EmptyFn, nextIno |-> 2, trie |-> LoadFromPaths({}),
     cache |-> EmptyFn, files |-> <<>>, clock |-> 2]

\* thread i writes through handle i: both handles are open on the base file
RaceWorld ==
    OverlayOpen(OverlayOpen(InitWorld, RacePath, O_RDONLY).w, RacePath, O_RDONLY).w

InitRace ==
    /\ base = RaceWorld.base
    /\ inodes = RaceWorld.inodes
    /\ dentries = RaceWorld.dentries
    /\ data = RaceWorld.data
    /\ symlinks = RaceWorld.symlinks
    /\ whiteouts = RaceWorld.whiteouts
    /\ origins = RaceWorld.origins
    /\ nextIno = RaceWorld.nextIno
    /\ trie = RaceWorld.trie
    /\ cache = RaceWorld.cache
    /\ files = RaceWorld.files
    /\ clock = RaceWorld.clock
    /\ calls = 0
    /\ \E f \in [RaceIds -> RaceOps] :
        threads = [i \in RaceIds |->
                     [op |-> f[i], pc |-> "check", err |-> OK, copyErr |-> OK]]

\* thread i took a step with result r and is at pc2 now
RaceStep(i, r, pc2) ==
    /\ Install(r.w)
    /\ calls' = calls
    /\ threads' = [threads EXCEPT ![i] = [@ EXCEPT !.pc = pc2, !.err = r.err]]

\* "inDelta := o.existsInDelta(path); if !inDelta && !existsInBase { not found }"
RaceChecked(i, x) ==
    IF ~x.val /\ ~existsInBase(x.w, RacePath) THEN RaceStep(i, R(ErrNotFound, x.w), "done")
    ELSE RaceStep(i, R(OK, x.w), IF x.val THEN "finish" ELSE "copy")

\* the checks a call starts with; a handle Write checks its own delta field
RaceCheck(i) ==
    /\ threads[i].pc = "check"
    /\ IF threads[i].op = "write"
       THEN RaceStep(i, R(OK, World), IF files[i].delta = <<>> THEN "copy" ELSE "finish")
       ELSE IF HasWhiteoutAncestor(trie, RacePath)
       THEN RaceStep(i, R(ErrNotFound, World), "done")
       ELSE RaceChecked(i, existsInDelta(World, RacePath))

RaceCopied(i, r) ==
    /\ Install(r.w)
    /\ calls' = calls
    /\ threads' = [threads EXCEPT ![i] =
                     [@ EXCEPT !.pc = IF r.err = OK THEN "finish" ELSE "done",
                               !.err = r.err, !.copyErr = r.err]]

\* copyOnWrite under the mutex
RaceCopy(i) ==
    /\ threads[i].pc = "copy"
    /\ RaceCopied(i, copyOnWrite(World, RacePath))

\* what the call does after its copy-up
RaceTail(w, op, i) ==
    CASE op = "chmod" -> AgentChmod(w, RacePath, 384)
      [] op = "truncate" -> AgentTruncate(w, RacePath, 1)
      [] op = "rename" -> OverlayRenameCopied(R(OK, w), RacePath, RaceDest, TRUE)
      [] op = "link" -> OverlayLinkAt(R(OK, w), RacePath, RaceDest)
      [] op = "open" -> OverlayOpenCopied(R(OK, w), RacePath, O_RDWR)
      [] op = "write" -> FileWriteAt(ensureDeltaCopied(R(OK, w), i), i, <<9>>, 0)

RaceFinish(i) ==
    /\ threads[i].pc = "finish"
    /\ RaceStep(i, RaceTail(World, threads[i].op, i), "done")

NextRace == \E i \in RaceIds : RaceCheck(i) \/ RaceCopy(i) \/ RaceFinish(i)

SpecRace == InitRace /\ [][NextRace]_vars

\* the delta inodes recorded as copies of the base file at RacePath
CopiesOf(w, path) == {d \in DOMAIN w.origins : w.origins[d] = w.base[path].ino}

\* C11: copy-up is idempotent and race-free.  However the steps of concurrent
\* calls that each need to copy up the same base-only path interleave, the
\* content is copied once (one delta inode with one origin mapping to the base
\* file), no call's copy-up fails, and copyOnWrite of a path that is already in
\* the delta leaves the tables as they are.
C11_CopyUpOnce ==
    /\ Cardinality(CopiesOf(World, RacePath)) <= 1
    /\ \A i \in RaceIds : threads[i].copyErr = OK
    /\ InDelta(World, RacePath) =>
         /\ copyOnWrite(World, RacePath).err = OK
         /\ Tables(copyOnWrite(World, RacePath).w) = Tables(World)

-----------------------------------------------------------------------------
\* the handles that hold a delta file
DeltaHandles(w) == {i \in 1..Len(w.files) : w.files[i].delta # <<>>}

\* byte strings of one byte and of more than a chunk; offsets on and off a
\* chunk boundary, inside the file, at its end and past it
RoundTripBytes == {<<9>>, <<9, 8, 7>>}
RoundTripOffsets == 0..(2 * ChunkSize)

\* Write(b, o) through handle i, then Read(o, Len(b)) and the size
RoundTrip(w, i, b, o) ==
    LET r == FileWrite(w, i, b, o)
        ino == w.files[i].delta[1]
    IN r.err = OK =>
         /\ FileRead(r.w, i, Len(b), o) = [err |-> OK, bytes |-> b]
         /\ r.w.inodes[ino].size = Max2(w.inodes[ino].size, o + Len(b))

\* C12: chunk round trip.  For a handle on a delta file in any reachable
\* state, any byte string b and offset o, a Write(b, o) that succeeds followed
\* by Read(o, Len(b)) on the same handle returns exactly b, and the size of the
\* file is then the larger of its prior size and o + Len(b).
C12_ChunkRoundTrip ==
    \A i \in DeltaHandles(World) : \A b \in RoundTripBytes : \A o \in RoundTripOffsets :
        RoundTrip(World, i, b, o)

\* a handle on a delta file with a hole (chunk 2 written, chunk 1 absent) on
\* which a write that starts inside chunk 0 and ends in chunk 1 succeeds
C12_Witness ==
    \E i \in DeltaHandles(World) :
        /\ HasChunk(World, files[i].delta[1], 2)
        /\ ~HasChunk(World, files[i].delta[1], 1)
        /\ FileWrite(World, i, <<9, 8, 7>>, 1).err = OK
        /\ FileRead(FileWrite(World, i, <<9, 8, 7>>, 1).w, i, 3, 1).bytes = <<9, 8, 7>>

-----------------------------------------------------------------------------
\* the byte of the file at position k (from 0): what was written there, or 0
ByteAt(w, ino, k) ==
    IF HasChunk(w, ino, k \div ChunkSize)
       /\ k % ChunkSize < Len(w.data[<<ino, k \div ChunkSize>>])
    THEN w.data[<<ino, k \div ChunkSize>>][(k % ChunkSize) + 1]
    ELSE 0

\* the logical content of the file in [offset, min(offset + length, size))
Logical(w, ino, offset, length) ==
    [k \in 1..(Min2(offset + length, w.inodes[ino].size) - offset) |->
        ByteAt(w, ino, offset + k - 1)]

ReadOffsets == 0..(2 * ChunkSize)
ReadLengths == 1..(2 * ChunkSize + 1)

\* C13: sparse reads.  For every regular file of the delta and every
\* (offset, length), ReadData returns the bytes of the logical content in
\* [offset, min(offset + length, size)), each position never written reading
\* as a zero byte at its own position.
C13_SparseReads ==
    \A ino \in DOMAIN inodes : IsRegMode(inodes[ino].mode) =>
        \A offset \in ReadOffsets : \A length \in ReadLengths :
            ReadData(World, ino, offset, length) = Logical(World, ino, offset, length)

-----------------------------------------------------------------------------
\* the dentries that reference inode ino
LinksTo(w, ino) == {k \in DOMAIN w.dentries : w.dentries[k] = ino}

\* the dentries of directory ino that reference a directory
Subdirs(w, ino) ==
    {k \in DOMAIN w.dentries :
        /\ k[1] = ino
        /\ HasInode(w, w.dentries[k])
        /\ IsDirMode(w.inodes[w.dentries[k]].mode)}

\* C14: link-count consistency.  In every reachable state every inode's nlink
\* equals the number of dentries that reference it, except the root, whose
\* nlink equals 2 plus the number of its subdirectories.
C14_LinkCount ==
    \A ino \in DOMAIN inodes :
        inodes[ino].nlink = IF ino = 1 THEN 2 + Cardinality(Subdirs(World, 1))
                            ELSE Cardinality(LinksTo(World, ino))

-----------------------------------------------------------------------------
(* The directory calls on their own, in longer sequences *)

MaxDirCalls == 4

DirCommit(w) ==
    /\ calls < MaxDirCalls
    /\ calls' = calls + 1
    /\ threads' = threads
    /\ Install(w)

DirMkdir == \E p \in Paths, m \in DirModes : DirCommit(OverlayMkdir(World, p, m).w)
DirRmdir == \E p \in Paths : DirCommit(OverlayRmdir(World, p).w)
DirRemove == \E p \in Paths : DirCommit(OverlayRemove(World, p).w)
DirRename == \E p \in Paths, q \in Paths : DirCommit(OverlayRename(World, p, q).w)

NextDir == DirMkdir \/ DirRmdir \/ DirRemove \/ DirRename

SpecDir == Init /\ [][NextDir]_vars

\* C15: root invariant.  In every reachable state inode 1 exists, is a
\* directory and has link count at least 2.
C15_RootInvariant ==
    /\ HasInode(World, 1)
    /\ IsDirMode(inodes[1].mode)
    /\ inodes[1].nlink >= 2

-----------------------------------------------------------------------------
\* the call with result r was refused as not found, and left store and index alone
Refused(w, r) ==
    /\ r.err = ErrNotFound
    /\ Tables(r.w) = Tables(w)
    /\ r.w.trie = w.trie

\* the calls that take path as the entry they read or change
RefusedOn(w, path) ==
    /\ Refused(w, OverlayLstat(w, path))
    /\ Refused(w, OverlayStat(w, path))
    /\ Refused(w, OverlayReadlink(w, path))
    /\ Refused(w, OverlayReaddir(w, path))
    /\ Refused(w, OverlayAccess(w, path))
    /\ \A fl \in OpenFlags : Refused(w, OverlayOpen(w, path, fl))
    /\ Refused(w, OverlayRemove(w, path))
    /\ Refused(w, OverlayRmdir(w, path))
    /\ \A m \in ChmodModes : Refused(w, OverlayChmod(w, path, m))
    /\ \A u \in Owners : Refused(w, OverlayChown(w, path, u, u))
    /\ \A s \in Sizes : Refused(w, OverlayTruncate(w, path, s))
    /\ \A a \in Times : Refused(w, OverlayUtimens(w, path, a, a))
    /\ \A q \in Paths : Refused(w, OverlayRename(w, path, q))
    /\ \A q \in Paths : Refused(w, OverlayLink(w, path, q))

\* the calls that take path as the entry they make
RefusedAt(w, path) ==
    /\ \A m \in CreateModes : Refused(w, OverlayCreate(w, path, m))
    /\ \A m \in DirModes : Refused(w, OverlayMkdir(w, path, m))
    /\ \A tg \in Targets : Refused(w, OverlaySymlink(w, tg, path))
    /\ \A p \in Paths : ~AncestorWhitedOut(w, p) => Refused(w, OverlayRename(w, p, path))
    /\ \A p \in Paths : ~AncestorWhitedOut(w, p) => Refused(w, OverlayLink(w, p, path))

\* C16: whiteout pre-filter.  A call whose path has a whited-out proper
\* ancestor returns not-found and changes neither the store nor the whiteout
\* index: the calls on an existing path, and also Create, Mkdir and Symlink at
\* such a path and Rename and Link to it.
C16_WhiteoutPrefilter ==
    \A path \in Paths : AncestorWhitedOut(World, path) =>
        RefusedOn(World, path) /\ RefusedAt(World, path)

-----------------------------------------------------------------------------
(* The FUSE adapter: every call's error passes through ToErrno *)

\* ToErrno: errors.Is against the overlay's own errors, then errors.As for a
\* syscall.Errno (an os error carries one), else EIO
ToErrno(err) ==
    CASE err = OK -> "0"
      [] err = ErrNotFound -> "ENOENT"
      [] err = ErrExists -> "EEXIST"
      [] err = ErrNotEmpty -> "ENOTEMPTY"
      [] err = ErrNotDir -> "ENOTDIR"
      [] err = ErrIsDir -> "EISDIR"
      [] err = ErrInvalid -> "EINVAL"
      [] err = OsErr -> "errno"
      [] OTHER -> "EIO"

\* the errno of the kind of failure err reports, whichever layer reported it
ErrnoOfKind(err) ==
    CASE err \in {ErrNotFound, DbErrNotFound} -> "ENOENT"
      [] err \in {ErrExists, DbErrExists} -> "EEXIST"
      [] err \in {ErrNotEmpty, DbErrNotEmpty} -> "ENOTEMPTY"
      [] OTHER -> ToErrno(err)

\* the errors the calls of the overlay return in state w, over all inputs
CallErrs(w) ==
    {OverlayLstat(w, p).err : p \in Paths}
    \cup {OverlayStat(w, p).err : p \in Paths}
    \cup {OverlayReadlink(w, p).err : p \in Paths}
    \cup {OverlayReaddir(w, p).err : p \in Paths}
    \cup {OverlayAccess(w, p).err : p \in Paths}
    \cup {OverlayMkdir(w, p, 493).err : p \in Paths}
    \cup {OverlayRmdir(w, p).err : p \in Paths}
    \cup {OverlayCreate(w, p, 420).err : p \in Paths}
    \cup {OverlayOpen(w, p, fl).err : p \in Paths, fl \in OpenFlags}
    \cup {OverlayRemove(w, p).err : p \in Paths}
    \cup {OverlayRename(w, p, q).err : p \in Paths, q \in Paths}
    \cup {OverlayChmod(w, p, 384).err : p \in Paths}
    \cup {OverlayChown(w, p, 7, 7).err : p \in Paths}
    \cup {OverlayTruncate(w, p, s).err : p \in Paths, s \in Sizes}
    \cup {OverlayUtimens(w, p, <<1>>, <<1>>).err : p \in Paths}
    \cup {OverlaySymlink(w, <<"a">>, p).err : p \in Paths}
    \cup {OverlayLink(w, p, q).err : p \in Paths, q \in Paths}
    \cup {FileWrite(w, i, <<9>>, 0).err : i \in 1..Len(w.files)}
    \cup {FileTruncate(w, i, s).err : i \in 1..Len(w.files), s \in Sizes}

\* C17: error kinds survive to the FUSE boundary.  Whatever layer reports a
\* failure, the errno the adapter returns is the one of the failure's kind:
\* ENOENT for not found, EEXIST for exists, ENOTEMPTY for not empty, and EIO
\* only for an error of no known kind.
C17_ErrorKinds ==
    \A e \in CallErrs(World) : ToErrno(e) = ErrnoOfKind(e)

-----------------------------------------------------------------------------
(* One base-backed handle used by several goroutines.  Thread 1 makes the   *)
(* first Write or Truncate: ensureDelta under copiedToMu, statement by      *)
(* statement.  The other threads call Read or Stat, which take no lock:     *)
(* they load f.delta, then f.base, then use the handle they loaded.         *)

SwapReaders == {2, 3}
ErrClosed == "os.ErrClosed"

\* the handle files[1] is open on the base file at RacePath
SwapWorld == OverlayOpen(InitWorld, RacePath, O_RDONLY).w

InitSwap ==
    /\ base = SwapWorld.base
    /\ inodes = SwapWorld.inodes
    /\ dentries = SwapWorld.dentries
    /\ data = SwapWorld.data
    /\ symlinks = SwapWorld.symlinks
    /\ whiteouts = SwapWorld.whiteouts
    /\ origins = SwapWorld.origins
    /\ nextIno = SwapWorld.nextIno
    /\ trie = SwapWorld.trie
    /\ cache = SwapWorld.cache
    /\ files = SwapWorld.files
    /\ clock = SwapWorld.clock
    /\ calls = 0
    /\ \E wop \in {"write", "truncate"}, rops \in [SwapReaders -> {"read", "stat"}] :
        threads = [i \in {1} \cup SwapReaders |->
                     [op |-> IF i = 1 THEN wop ELSE rops[i], pc |-> "start",
                      err |-> OK, ptr |-> <<>>, closed |-> FALSE]]

\* thread i took a step that leaves the world w and the thread as rec
SwapStep(i, w, rec) ==
    /\ Install(w)
    /\ calls' = calls
    /\ threads' = [threads EXCEPT ![i] = rec]

\* "deltaFile, err := f.overlay.delta.Open(ctx, f.path, O_RDWR)" after copyOnWrite
SwapOpenDelta(c, path) ==
    IF c.err # OK THEN RV(c.err, c.w, 0) ELSE AgentOpen(c.w, path, O_RDWR)

SwapOpened(o) ==
    SwapStep(1, o.w, IF o.err # OK THEN [threads[1] EXCEPT !.pc = "done", !.err = o.err]
                     ELSE [threads[1] EXCEPT !.pc = "opened", !.ptr = <<o.val>>])

\* Write/Truncate sees f.delta == nil; ensureDelta: copyOnWrite and delta.Open
SwapCopy ==
    /\ threads[1].pc = "start"
    /\ files[1].delta = <<>> /\ ~files[1].copiedToDelta
    /\ SwapOpened(SwapOpenDelta(copyOnWrite(World, files[1].path), files[1].path))

\* "f.base.Close()"
SwapCloseBase ==
    /\ threads[1].pc = "opened"
    /\ SwapStep(1, World, [threads[1] EXCEPT !.pc = "closed", !.closed = TRUE])

\* "f.base = nil"
SwapClearBase ==
    /\ threads[1].pc = "closed"
    /\ SwapStep(1, [World EXCEPT !.files[1].base = <<>>], [threads[1] EXCEPT !.pc = "nilled"])

\* "f.delta = deltaFile; f.copiedToDelta = true"
SwapSetDelta ==
    /\ threads[1].pc = "nilled"
    /\ SwapStep(1, [World EXCEPT !.files[1].delta = threads[1].ptr,
                                 !.files[1].copiedToDelta = TRUE],
                [threads[1] EXCEPT !.pc = "swapped"])

SwapWritten(r) == SwapStep(1, r.w, [threads[1] EXCEPT !.pc = "done", !.err = r.err])

\* "return f.delta.Write(ctx, data, offset)", "return f.delta.Truncate(ctx, size)"
SwapWriteDelta ==
    /\ threads[1].pc = "swapped"
    /\ SwapWritten(IF threads[1].op = "write" THEN FileWriteAt(R(OK, World), 1, <<9>>, 0)
                   ELSE FileTruncateAt(R(OK, World), 1, 1))

\* "if f.delta != nil { return f.delta.Read(...) }" (Stat likewise)
SwapLoadDelta(i) ==
    /\ threads[i].pc = "start"
    /\ SwapStep(i, World,
                IF files[1].delta = <<>> THEN [threads[i] EXCEPT !.pc = "nodelta"]
                ELSE [threads[i] EXCEPT !.pc = "done",
                         !.err = IF threads[i].op = "read" THEN FileRead(World, 1, 1, 0).err
                                 ELSE FileStat(World, 1).err])

\* "if f.base != nil {" ... "return 0, ErrNotFound"
SwapLoadBase(i) ==
    /\ threads[i].pc = "nodelta"
    /\ SwapStep(i, World,
                IF files[1].base = <<>> THEN [threads[i] EXCEPT !.pc = "done", !.err = ErrNotFound]
                ELSE [threads[i] EXCEPT !.pc = "hasbase", !.ptr = files[1].base])

\* "return f.base.Read(...)" on the handle loaded: os.ErrClosed once it is closed
SwapUseBase(i) ==
    /\ threads[i].pc = "hasbase"
    /\ SwapStep(i, World,
                [threads[i] EXCEPT !.pc = "done",
                    !.err = IF threads[1].closed THEN ErrClosed
                            ELSE IF threads[i].op = "read"
                            THEN OSFileRead(base, threads[i].ptr[1], 1, 0).err
                            ELSE OK])

NextSwap ==
    \/ SwapCopy \/ SwapCloseBase \/ SwapClearBase \/ SwapSetDelta \/ SwapWriteDelta
    \/ \E i \in SwapReaders : SwapLoadDelta(i) \/ SwapLoadBase(i) \/ SwapUseBase(i)

SpecSwap == InitSwap /\ [][NextSwap]_vars

\* C18: atomic handle swap.  At every instant the handle holds exactly one of
\* a base handle and a delta handle, and a Read or Stat that interleaves with
\* the first Write or Truncate on the handle never returns not-found and never
\* uses a base handle that has been closed.
C18_AtomicSwap ==
    /\ (files[1].base # <<>>) # (files[1].delta # <<>>)
    /\ \A i \in SwapReaders : threads[i].err \notin {ErrNotFound, ErrClosed}

-----------------------------------------------------------------------------
\* the positions (from 0) a write of b at o covers
Covered(b, o) == o..(o + Len(b) - 1)

\* the byte at position k after Write(b1, o1) and then Write(b2, o2)
LastWritten(k, b1, o1, b2, o2) ==
    IF k \in Covered(b2, o2) THEN b2[k - o2 + 1] ELSE b1[k - o1 + 1]

\* the world after the opens of path with the flags in fls, one after the other
RECURSIVE AfterOpens(_, _, _)
AfterOpens(w, path, fls) ==
    IF fls = <<>> THEN w
    ELSE AfterOpens(OverlayOpen(w, path, Head(fls)).w, path, Tail(fls))

FirstWrites == {<<8, 8, 8>>}
FirstOffsets == {0, 1}
SecondWrites == {<<9>>}
SecondOffsets == {1, 4}

\* Write(b1, o1), the opens fls of the handle's path, Write(b2, o2), all through
\* handle i where both writes succeed: each covered byte reads as last written
WriteOrder(w, i, b1, o1, fls, b2, o2) ==
    LET w1 == FileWrite(w, i, b1, o1)
        w2 == FileWrite(AfterOpens(w1.w, w.files[i].path, fls), i, b2, o2)
    IN (w1.err = OK /\ w2.err = OK) =>
         \A k \in Covered(b1, o1) \cup Covered(b2, o2) :
            FileRead(w2.w, i, 1, k).bytes = <<LastWritten(k, b1, o1, b2, o2)>>

WriteOrderUnder(flagSets) ==
    \A i \in 1..Len(files) : \A b1 \in FirstWrites : \A o1 \in FirstOffsets :
        \A b2 \in SecondWrites : \A o2 \in SecondOffsets :
            \A fls \in {<<>>} \cup {<<fl>> : fl \in flagSets} :
                WriteOrder(World, i, b1, o1, fls, b2, o2)

\* C19: per-handle write order.  After Write w1 and then Write w2 through one
\* handle, every byte covered by either write reads through that handle as the
\* value of the last of the two writes covering it, whatever open of the same
\* path, with any flags, another handle made in between.
C19_WriteOrder == WriteOrderUnder(OpenFlags)

\* C19 amended: the same, where the opens made in between do not truncate
\* (their flags do not hold O_TRUNC).
C19_WriteOrderNoTrunc == WriteOrderUnder({fl \in OpenFlags : "O_TRUNC" \notin fl})

\* two handles on one delta file that a Write at offset 4 has reached, where
\* Write, an Open for read and write, and a second Write all succeed
C19_Witness ==
    \E i \in DeltaHandles(World) : \E j \in 1..Len(files) :
        /\ j # i /\ files[j].path = files[i].path
        /\ HasChunk(World, files[i].delta[1], 2)
        /\ FileWrite(World, i, <<8, 8, 8>>, 0).err = OK
        /\ FileWrite(AfterOpens(FileWrite(World, i, <<8, 8, 8>>, 0).w, files[i].path, <<O_RDWR>>),
                     i, <<9>>, 1).err = OK

-----------------------------------------------------------------------------
\* the newest handle of w
Newest(w) == Len(w.files)

\* the world after Write(b, 0) through the newest handle and its Close
WrittenAndClosed(w, b) == FileClose(FileWrite(w, Newest(w), b, 0).w, Newest(w))

\* Stat(path) reports size n, and an Open with flags fl followed by a Read of
\* [0, n) through the new handle returns b
SeenAfterwards(w, path, b, fl) ==
    LET s == OverlayStat(w, path)
        o == OverlayOpen(w, path, fl)
    IN /\ s.err = OK
       /\ s.val.size = Len(b)
       /\ o.err = OK
       /\ FileRead(o.w, Newest(o.w), Len(b), 0) = [err |-> OK, bytes |-> b]

\* after a Create(path) with result c that succeeds, and a Write of b through
\* its handle that succeeds, and the Close: Stat and reopened handles see b
CreateThenReopen(c, path, b) ==
    (c.err = OK /\ FileWrite(c.w, Newest(c.w), b, 0).err = OK) =>
        \A fl \in {O_RDONLY, O_RDWR} : SeenAfterwards(WrittenAndClosed(c.w, b), path, b, fl)

\* C20: create then reopen.  After a Create(p) that succeeds (missing parent
\* directories are made), a Write of n bytes through the returned handle and
\* its Close, Stat(p) reports size n and a Read of [0, n) through a handle
\* opened afterwards, for reading or for reading and writing, returns the
\* bytes written.
C20_CreateThenReopen ==
    \A path \in Paths : \A b \in RoundTripBytes :
        CreateThenReopen(OverlayCreate(World, path, 420), path, b)

-----------------------------------------------------------------------------
\* link targets of one and of two units of length
LinkTargets == {<<"a">>, <<"a", "a">>}

\* after a Symlink(t, l) with result s that succeeded: Readlink(l) is t and
\* Lstat(l) reports a symlink with permission bits 0777 and size Len(t)
SymlinkReadBack(s, t, l) ==
    LET rl == OverlayReadlink(s.w, l)
        ls == OverlayLstat(s.w, l)
    IN s.err = OK =>
         /\ rl.err = OK /\ rl.val = t
         /\ ls.err = OK
         /\ IsLnkMode(ls.val.mode) /\ PermOf(ls.val.mode) = 511
         /\ ls.val.size = Len(t)

\* C21: symlink round trip.  For every target t and every link path l that is
\* not visible in the merged view (Lstat(l) fails), after a Symlink(t, l) that
\* succeeds Readlink(l) returns t and Lstat(l) reports symlink type, permission
\* bits 0777 and size Len(t); also when l carried a whiteout.
C21_SymlinkRoundTrip ==
    \A l \in Paths : OverlayLstat(World, l).err # OK =>
        \A t \in LinkTargets : SymlinkReadBack(OverlaySymlink(World, t, l), t, l)

-----------------------------------------------------------------------------
(* HostFS, the mutating calls.  Each resolves the path and hands it to the  *)
(* host: os.Mkdir, os.Remove, os.OpenFile, os.Rename, os.Chmod, os.Lchown,  *)
(* os.Truncate, os.Chtimes, os.Symlink, os.Link.  A result is the error and *)
(* the host tree afterwards.                                                *)

ErrNoAccess == "overlay.ErrNoAccess"
ErrReadOnly == "overlay.ErrReadOnly"

HR(e, b) == [err |-> e, b |-> b]

\* the segments of a link target, a string with "/" between the segments
RECURSIVE TargetSegs(_, _, _)
TargetSegs(t, i, seg) ==
    IF i > Len(t) THEN (IF seg = "" THEN <<>> ELSE <<seg>>)
    ELSE IF t[i] = "/"
    THEN (IF seg = "" THEN <<>> ELSE <<seg>>) \o TargetSegs(t, i + 1, "")
    ELSE TargetSegs(t, i + 1, t[i])

\* the host path a relative symlink at path p with target t resolves to
HostDest(p, t) == ParentOf(p) \o TargetSegs(t, 1, "")

\* the inode number the host gives a new file
HostNextIno(b) ==
    IF DOMAIN b = {} THEN 10
    ELSE 1 + (CHOOSE n \in {b[q].ino : q \in DOMAIN b} :
                  \A q \in DOMAIN b : b[q].ino <= n)

\* the parent of p is a host directory
HostParentIsDir(b, p) ==
    Len(p) > 0 /\ ParentOf(p) \in DOMAIN b /\ IsDirMode(b[ParentOf(p)].mode)

\* the entries below directory p
HostBelow(b, p) == {q \in DOMAIN b : Len(q) > Len(p) /\ IsPrefixOf(p, q)}

\* every entry of inode ino with its link count changed by d
HostRelink(b, ino, d) ==
    [q \in DOMAIN b |-> IF b[q].ino = ino THEN [b[q] EXCEPT !.nlink = @ + d] ELSE b[q]]

\* unlink(2) of the non-directory p
HostUnlink(b, p) == Drop(HostRelink(b, b[p].ino, -1), {p})

\* rmdir(2) of the empty directory p (the link count a host directory reports
\* is the file system's own and is kept as it is)
HostUnlinkDir(b, p) == Drop(b, {p})

\* HostFS.Mkdir
HostMkdir(b, p, mode) ==
    IF HostExists(b, p) THEN HR(ErrExists, b)
    ELSE IF ~HostParentIsDir(b, p) THEN HR(HostMissingErr(b, p), b)
    ELSE HR(OK, Put(b, p,
                    HostEntry(S_IFDIR + PermOf(mode), HostNextIno(b), <<>>, <<>>, <<>>)))

\* HostFS.Rmdir
HostRmdir(b, p) ==
    IF ~HostExists(b, p) THEN HR(HostMissingErr(b, p), b)
    ELSE IF ~IsDirMode(b[p].mode) THEN HR(ErrNotDir, b)
    ELSE IF HostBelow(b, p) # {} THEN HR(ErrNotEmpty, b)
    ELSE HR(OK, HostUnlinkDir(b, p))

\* HostFS.Create: O_RDWR|O_CREATE|O_EXCL
HostCreate(b, p, mode) ==
    IF HostExists(b, p) THEN HR(ErrExists, b)
    ELSE IF ~HostParentIsDir(b, p) THEN HR(HostMissingErr(b, p), b)
    ELSE HR(OK, Put(b, p, HostEntry(S_IFREG + PermOf(mode), HostNextIno(b), <<>>, <<>>, <<>>)))

\* HostFS.Remove
HostRemove(b, p) ==
    IF ~HostExists(b, p) THEN HR(HostMissingErr(b, p), b)
    ELSE IF IsDirMode(b[p].mode) THEN HR(ErrIsDir, b)
    ELSE HR(OK, HostUnlink(b, p))

\* the tree with the destination of a rename taken away
HostReplaced(b, new) ==
    IF ~HostExists(b, new) THEN b
    ELSE IF IsDirMode(b[new].mode) THEN HostUnlinkDir(b, new)
    ELSE HostUnlink(b, new)

\* the entry of old path q once old has become new
HostMovedEntry(b, old, new, q) ==
    IF IsLnkMode(b[q].mode)
    THEN [b[q] EXCEPT !.dest = HostDest(new \o SubSeq(q, Len(old) + 1, Len(q)), b[q].target)]
    ELSE b[q]

\* the tree with old and everything below it moved to new
HostMoved(b, old, new) ==
    [q \in (DOMAIN b \ ({old} \cup HostBelow(b, old)))
           \cup {new \o SubSeq(x, Len(old) + 1, Len(x)) : x \in {old} \cup HostBelow(b, old)} |->
        IF IsPrefixOf(new, q)
        THEN HostMovedEntry(b, old, new, old \o SubSeq(q, Len(new) + 1, Len(q)))
        ELSE b[q]]

\* HostFS.Rename: os.Rename, its error returned as it is
HostRename(b, old, new) ==
    IF ~HostExists(b, old) \/ Len(old) = 0 \/ Len(new) = 0 THEN HR(OsErr, b)
    ELSE IF old = new THEN HR(OK, b)
    ELSE IF IsPrefixOf(old, new) \/ ~HostParentIsDir(b, new) THEN HR(OsErr, b)
    ELSE IF HostExists(b, new) /\ IsDirMode(b[old].mode) # IsDirMode(b[new].mode)
    THEN HR(OsErr, b)
    ELSE IF HostExists(b, new) /\ HostBelow(b, new) # {} THEN HR(OsErr, b)
    ELSE IF HostExists(b, new) /\ b[new].ino = b[old].ino THEN HR(OK, b)
    ELSE HR(OK, HostMoved(HostReplaced(b, new), old, new))

\* HostFS.Chmod: os.Chmod follows a final symlink
HostChmod(b, p, mode) ==
    IF ~HostExists(b, HostFollow(b, p)) THEN HR(OsErr, b)
    ELSE HR(OK, [q \in DOMAIN b |->
                    IF b[q].ino = b[HostFollow(b, p)].ino
                    THEN [b[q] EXCEPT !.mode = TypeOf(@) + PermOf(mode)] ELSE b[q]])

\* HostFS.Chown: os.Lchown
HostChown(b, p, uid, gid) ==
    IF ~HostExists(b, p) THEN HR(OsErr, b)
    ELSE HR(OK, [q \in DOMAIN b |->
                    IF b[q].ino = b[p].ino
                    THEN [b[q] EXCEPT !.uid = uid, !.gid = gid] ELSE b[q]])

\* the first size bytes of content, filled with zeros
Resized(content, size) ==
    [i \in 1..size |-> IF i <= Len(content) THEN content[i] ELSE 0]

\* HostFS.Truncate: os.Truncate follows a final symlink
HostTruncate(b, p, size) ==
    IF ~HostExists(b, HostFollow(b, p)) THEN HR(OsErr, b)
    ELSE IF ~IsRegMode(b[HostFollow(b, p)].mode) THEN HR(OsErr, b)
    ELSE HR(OK, [q \in DOMAIN b |->
                    IF b[q].ino = b[HostFollow(b, p)].ino
                    THEN [b[q] EXCEPT !.size = size, !.content = Resized(@, size)]
                    ELSE b[q]])

\* HostFS.Utimens: os.Lstat of the path, then os.Chtimes, which follows a
\* final symlink
HostUtimens(b, p, atime, mtime) ==
    IF ~HostExists(b, p) \/ ~HostExists(b, HostFollow(b, p)) THEN HR(OsErr, b)
    ELSE HR(OK, [q \in DOMAIN b |->
                    IF b[q].ino = b[HostFollow(b, p)].ino
                    THEN [b[q] EXCEPT !.atime = atime, !.mtime = mtime] ELSE b[q]])

\* HostFS.Symlink
HostSymlink(b, target, p) ==
    IF HostExists(b, p) \/ ~HostParentIsDir(b, p) THEN HR(OsErr, b)
    ELSE HR(OK, Put(b, p, HostEntry(S_IFLNK + 511, HostNextIno(b), <<>>, target,
                                    HostDest(p, target))))

\* HostFS.Link
HostLink(b, old, new) ==
    IF ~HostExists(b, old) \/ IsDirMode(b[old].mode) THEN HR(OsErr, b)
    ELSE IF HostExists(b, new) \/ ~HostParentIsDir(b, new) THEN HR(OsErr, b)
    ELSE HR(OK, HostRelink(Put(b, new, b[old]), b[old].ino, 1))

\* HostFS.Open with flags that write
HostOpenForWriting(b, p, flags) ==
    HR(HostOpen([World EXCEPT !.base = b], p, flags).err,
       HostOpen([World EXCEPT !.base = b], p, flags).w.base)

\* the mutating calls of the base adapter on the host tree b, with their inputs
HostMutations(b) ==
    {HostMkdir(b, p, 493) : p \in Paths}
    \cup {HostRmdir(b, p) : p \in Paths}
    \cup {HostCreate(b, p, 420) : p \in Paths}
    \cup {HostRemove(b, p) : p \in Paths}
    \cup {HostRename(b, p, q) : <<p, q>> \in Paths \X Paths}
    \cup {HostChmod(b, p, 384) : p \in Paths}
    \cup {HostChown(b, p, 0, 0) : p \in Paths}
    \cup {HostTruncate(b, p, n) : <<p, n>> \in Paths \X Sizes}
    \cup {HostUtimens(b, p, 0, 0) : p \in Paths}
    \cup {HostSymlink(b, t, p) : <<t, p>> \in Targets \X Paths}
    \cup {HostLink(b, p, q) : <<p, q>> \in Paths \X Paths}
    \cup {HostOpenForWriting(b, p, f) : <<p, f>> \in Paths \X {O_RDWR, O_WRONLY, O_APPEND, O_TRUNC}}

\* the calls made on the base adapter
MaxHostCalls == 2

HostCommit(r) ==
    /\ calls < MaxHostCalls
    /\ base' = r.b
    /\ calls' = calls + 1
    /\ UNCHANGED <<inodes, dentries, data, symlinks, whiteouts, origins, nextIno,
                   trie, cache, files, clock, threads>>

BaseMkdir == \E p \in Paths : HostCommit(HostMkdir(base, p, 493))
BaseRmdir == \E p \in Paths : HostCommit(HostRmdir(base, p))
BaseCreate == \E p \in Paths : HostCommit(HostCreate(base, p, 420))
BaseRemove == \E p \in Paths : HostCommit(HostRemove(base, p))
BaseRename == \E p \in Paths, q \in Paths : HostCommit(HostRename(base, p, q))
BaseChmod == \E p \in Paths : HostCommit(HostChmod(base, p, 384))
BaseChown == \E p \in Paths : HostCommit(HostChown(base, p, 0, 0))
BaseTruncate == \E p \in Paths, n \in Sizes : HostCommit(HostTruncate(base, p, n))
BaseUtimens == \E p \in Paths : HostCommit(HostUtimens(base, p, 0, 0))
BaseSymlink == \E t \in Targets, p \in Paths : HostCommit(HostSymlink(base, t, p))
BaseLink == \E p \in Paths, q \in Paths : HostCommit(HostLink(base, p, q))
BaseOpen ==
    \E p \in Paths, f \in {O_RDWR, O_WRONLY, O_APPEND, O_TRUNC} :
        HostCommit(HostOpenForWriting(base, p, f))

NextHost ==
    \/ BaseMkdir \/ BaseRmdir \/ BaseCreate \/ BaseRemove \/ BaseRename \/ BaseChmod
    \/ BaseChown \/ BaseTruncate \/ BaseUtimens \/ BaseSymlink \/ BaseLink \/ BaseOpen

SpecHost == Init /\ [][NextHost]_vars

\* C22: the base adapter is read-only.  Every mutating call on it (Mkdir, Rmdir,
\* Create, Remove, Rename, Chmod, Chown, Truncate, Utimens, Symlink, Link, and
\* Open with write, append or truncate flags) returns the read-only error and
\* leaves the host directory as it was.
C22_BaseReadOnly ==
    \A r \in HostMutations(base) : r.err = ErrReadOnly /\ r.b = base

-----------------------------------------------------------------------------
(* HostFS.resolvePath on path strings.  A string is a sequence of           *)
(* characters; the calls of the adapter are held in threads, one record for *)
(* the adapter with its root, the path of the last call and what the call   *)
(* returned.                                                                *)

\* the characters of a path string and the longest virtual path
PathChars == {"/", ".", "a"}
MaxPathLen == 5
PathStrings == UNION {[1..n -> PathChars] : n \in 0..MaxPathLen}

\* the roots of the adapter: absolute, clean host paths
HostRoots == {<<"/">>, <<"/", "a">>}

\* the segments of s between separators, the empty ones left out
RECURSIVE SplitFrom(_, _, _)
SplitFrom(s, i, seg) ==
    IF i > Len(s) THEN (IF seg = <<>> THEN <<>> ELSE <<seg>>)
    ELSE IF s[i] = "/"
    THEN (IF seg = <<>> THEN <<>> ELSE <<seg>>) \o SplitFrom(s, i + 1, <<>>)
    ELSE SplitFrom(s, i + 1, Append(seg, s[i]))

\* filepath.Clean of a rooted path, on its segments: "." is dropped, ".."
\* takes away the segment before it and is dropped at the root
RECURSIVE CleanSegs(_, _, _)
CleanSegs(segs, i, out) ==
    IF i > Len(segs) THEN out
    ELSE IF segs[i] = <<".">> THEN CleanSegs(segs, i + 1, out)
    ELSE IF segs[i] = <<".", ".">>
    THEN CleanSegs(segs, i + 1, IF out = <<>> THEN out ELSE SubSeq(out, 1, Len(out) - 1))
    ELSE CleanSegs(segs, i + 1, Append(out, segs[i]))

RECURSIVE JoinSegs(_)
JoinSegs(segs) ==
    IF segs = <<>> THEN <<>> ELSE <<"/">> \o Head(segs) \o JoinSegs(Tail(segs))

\* filepath.Clean of a rooted path string
FilepathClean(s) ==
    IF CleanSegs(SplitFrom(s, 1, <<>>), 1, <<>>) = <<>> THEN <<"/">>
    ELSE JoinSegs(CleanSegs(SplitFrom(s, 1, <<>>), 1, <<>>))

\* the virtual path as given, with a leading slash and not cleaned
RootedUncleanAs(path) == <<"/">> \o path

\* filepath.Clean("/" + path)
RootedClean(path) == FilepathClean(<<"/">> \o path)

\* filepath.Join(root, path): the two joined by a separator, then cleaned
FilepathJoin(root, path) == FilepathClean(root \o <<"/">> \o path)

\* strings.HasPrefix
HasPrefix(s, prefix) == Len(prefix) <= Len(s) /\ SubSeq(s, 1, Len(prefix)) = prefix

\* HostFS.resolvePath: the error and the host path
HostResolvePath(root, path) ==
    IF ~HasPrefix(FilepathJoin(root, RootedClean(path)), root)
    THEN [err |-> ErrNoAccess, full |-> <<>>]
    ELSE [err |-> OK, full |-> FilepathJoin(root, RootedClean(path))]

InitPath ==
    /\ base = BaseTree
    /\ inodes = (1 :> RootInode)
    /\ dentries = EmptyFn
    /\ data = EmptyFn
    /\ symlinks = EmptyFn
    /\ whiteouts = EmptyFn
    /\ origins = EmptyFn
    /\ nextIno = 2
    /\ trie = LoadFromPaths({})
    /\ cache = EmptyFn
    /\ files = <<>>
    /\ clock = 2
    /\ calls = 0
    /\ \E r \in HostRoots :
        threads = <<[root |-> r, pos |-> "idle", path |-> <<>>, err |-> OK, full |-> <<>>]>>

\* one call of resolvePath, from any of the adapter's methods
ResolveCall ==
    /\ \E path \in PathStrings :
        threads' = <<[root |-> threads[1].root, pos |-> "returned", path |-> path,
                      err |-> HostResolvePath(threads[1].root, path).err,
                      full |-> HostResolvePath(threads[1].root, path).full]>>
    /\ UNCHANGED <<base, inodes, dentries, data, symlinks, whiteouts, origins, nextIno,
                   trie, cache, files, clock, calls>>

NextPath == ResolveCall

SpecPath == InitPath /\ [][NextPath]_vars

\* host path full is root or lies beneath it
Beneath(root, full) ==
    \/ full = root
    \/ HasPrefix(full, IF root = <<"/">> THEN root ELSE root \o <<"/">>)

\* C23: base path containment.  For every virtual path string, also with ".."
\* segments, repeated slashes or no leading slash, the host path the adapter
\* resolves is the root or lies beneath the root; the only error is the
\* permission error, and then no host path is resolved, so no path outside the
\* root (such as a sibling whose name starts with the root's name) is accessed.
C23_PathContainment ==
    threads[1].pos = "returned" =>
        \/ threads[1].err = OK /\ Beneath(threads[1].root, threads[1].full)
        \/ threads[1].err = ErrNoAccess /\ threads[1].full = <<>>

\* a path that climbs above the root towards a sibling of the root has returned
C23_Witness ==
    /\ threads[1].pos = "returned"
    /\ threads[1].root = <<"/", "a">>
    /\ threads[1].path = <<".", ".", "/", "a", "a">>
    /\ threads[1].err = OK
    /\ threads[1].full = <<"/", "a", "/", "a", "a">>

-----------------------------------------------------------------------------
\* d is a directory that is visible in the merged view
VisibleDir(w, d) == OverlayLstat(w, d).err = OK /\ IsDirMode(OverlayLstat(w, d).val.mode)

\* Readdir(d) succeeds, returns each name once, and returns n iff Lstat(d/n)
\* succeeds
ListsWhatLstatFinds(w, d) ==
    LET r == OverlayReaddir(w, d) IN
    /\ r.err = OK
    /\ \A e1 \in r.val : \A e2 \in r.val : e1.name = e2.name => e1 = e2
    /\ \A n \in Names :
        (\E e \in r.val : e.name = n) <=> OverlayLstat(w, Append(d, n)).err = OK

\* C24: Readdir agrees with Lstat.  In every reachable state, for every
\* directory d visible in the merged view, Readdir(d) returns a name n iff
\* Lstat(d/n) succeeds, and each name once; Readdir of a path that is not
\* visible returns not-found, not an empty listing.
C24_ReaddirAgreesWithLstat ==
    \A d \in Paths :
        /\ VisibleDir(World, d) => ListsWhatLstatFinds(World, d)
        /\ OverlayLstat(World, d).err # OK => OverlayReaddir(World, d).err = ErrNotFound

-----------------------------------------------------------------------------
\* the call with result r from state w failed with already-exists and changed
\* neither the tables nor the whiteout trie
RefusedAsExisting(w, r) ==
    r.err = ErrExists /\ Tables(r.w) = Tables(w) /\ r.w.trie = w.trie

\* C25: Create, Mkdir and Symlink on a path that is visible in the merged view
\* (Lstat succeeds), also one present only in the base, fail with
\* already-exists and change nothing; no delta entry comes to shadow a visible
\* base entry.
C25_CreateOnVisible ==
    \A p \in Paths : OverlayLstat(World, p).err = OK =>
        /\ \A m \in CreateModes : RefusedAsExisting(World, OverlayCreate(World, p, m))
        /\ \A m \in DirModes : RefusedAsExisting(World, OverlayMkdir(World, p, m))
        /\ \A t \in Targets : RefusedAsExisting(World, OverlaySymlink(World, t, p))

-----------------------------------------------------------------------------
(* Concurrent calls that insert and erase the whiteout of one path.  No lock *)
(* spans a call: the store statement and the trie update of a call are       *)
(* separate steps, and the trie's own mutex covers one Insert or Remove.     *)

WhPath == <<"a", "a">>
WhIds == {1, 2, 3}
WhOps == {"remove", "create", "mkdir", "symlink"}

InitWh ==
    /\ base = InitWorld.base
    /\ inodes = InitWorld.inodes
    /\ dentries = InitWorld.dentries
    /\ data = InitWorld.data
    /\ symlinks = InitWorld.symlinks
    /\ whiteouts = InitWorld.whiteouts
    /\ origins = InitWorld.origins
    /\ nextIno = InitWorld.nextIno
    /\ trie = InitWorld.trie
    /\ cache = InitWorld.cache
    /\ files = InitWorld.files
    /\ clock = InitWorld.clock
    /\ calls = 0
    /\ \E f \in [WhIds -> WhOps] :
        threads = [i \in WhIds |->
                     [op |-> f[i], pc |-> "check", err |-> OK, inDelta |-> FALSE, inBase |-> FALSE]]

\* thread i took a step that left the world w, returned or not, and is at pc2
WhStep(i, w, e, pc2) ==
    /\ Install(w)
    /\ calls' = calls
    /\ threads' = [threads EXCEPT ![i] = [@ EXCEPT !.pc = pc2, !.err = e]]

\* Remove: "inDelta := existsInDelta(path); inBase := existsInBase(path)"
WhRemoveChecked(i, x) ==
    /\ Install(x.w)
    /\ calls' = calls
    /\ threads' = [threads EXCEPT ![i] =
        [@ EXCEPT !.inDelta = x.val, !.inBase = existsInBase(x.w, WhPath),
                  !.err = IF ~x.val /\ ~existsInBase(x.w, WhPath) THEN ErrNotFound ELSE OK,
                  !.pc = IF ~x.val /\ ~existsInBase(x.w, WhPath) THEN "done"
                         ELSE IF x.val THEN "delta" ELSE "row"]]

\* the checks a call starts with
WhCheck(i) ==
    /\ threads[i].pc = "check"
    /\ IF threads[i].op = "remove"
       THEN IF HasWhiteoutAncestor(trie, WhPath) THEN WhStep(i, World, ErrNotFound, "done")
            ELSE WhRemoveChecked(i, existsInDelta(World, WhPath))
       ELSE IF ParentWhitedOut(World, WhPath) THEN WhStep(i, World, ErrNotFound, "done")
            ELSE WhStep(i, World, OK, IF HasExactWhiteout(trie, WhPath) THEN "row" ELSE "make")

WhDeltaRemoved(i, r) ==
    WhStep(i, r.w, r.err, IF r.err = OK /\ threads[i].inBase THEN "row" ELSE "done")

\* Remove: "if inDelta { DeleteOrigin; delta.Remove }"
WhDelta(i) ==
    /\ threads[i].pc = "delta"
    /\ WhDeltaRemoved(i, RemoveInDelta(GetIno(World, WhPath), WhPath))

\* the store statement: CreateWhiteout in Remove, DeleteWhiteout in the others
WhRow(i) ==
    /\ threads[i].pc = "row"
    /\ IF threads[i].op = "remove"
       THEN WhStep(i, CreateWhiteout(World, WhPath), OK, "trie")
       ELSE WhStep(i, DeleteWhiteout(World, WhPath), OK, "trie")

\* the trie update: Insert in Remove, Remove in the others
WhTrie(i) ==
    /\ threads[i].pc = "trie"
    /\ IF threads[i].op = "remove"
       THEN WhStep(i, [World EXCEPT !.trie = TrieInsert(trie, WhPath)], OK, "done")
       ELSE WhStep(i, [World EXCEPT !.trie = TrieRemove(trie, WhPath)], OK, "make")

\* ensureParentDirs and the delta's Create, Mkdir or Symlink
WhMade(op, e) ==
    CASE op = "create" -> OverlayCreateAt(e, WhPath, 420)
      [] op = "mkdir" -> OverlayMkdirAt(e, WhPath, 493)
      [] op = "symlink" -> OverlaySymlinkAt(e, <<"a">>, WhPath)

WhMakeDone(i, r) == WhStep(i, r.w, r.err, "done")

WhMake(i) ==
    /\ threads[i].pc = "make"
    /\ WhMakeDone(i, WhMade(threads[i].op, ensureParentDirs(World, WhPath)))

NextWh == \E i \in WhIds : WhCheck(i) \/ WhDelta(i) \/ WhRow(i) \/ WhTrie(i) \/ WhMake(i)

SpecWh == InitWh /\ [][NextWh]_vars

\* C26: index and store agree under concurrency.  However the steps of
\* concurrent calls that insert and erase the whiteout of one path interleave,
\* once all of them have returned the whiteout index holds exactly the paths
\* of the store's whiteout table.
C26_IndexMatchesStore ==
    (\A i \in WhIds : threads[i].pc = "done") => GetAllWhiteouts(trie) = DOMAIN whiteouts

-----------------------------------------------------------------------------
(* AgentFS under concurrent calls: path resolutions next to Remove, Rmdir    *)
(* and Rename.  The dentry cache has a lock of its own for one Get, Add or   *)
(* Remove; nothing spans the store read and the cache.Add of a resolution,   *)
(* or the transaction and the invalidateCache of a mutation.                 *)

CacheIds == {1, 2}

\* the calls: Lstat of a path, and the three mutations
CacheCalls ==
    {[op |-> "lstat", path |-> p, dest |-> <<>>] : p \in {<<"a", "a">>, <<"a", "b">>, <<"b">>}}
    \cup {[op |-> "remove", path |-> <<"a", "a">>, dest |-> <<>>],
          [op |-> "rmdir", path |-> <<"b">>, dest |-> <<>>],
          [op |-> "rename", path |-> <<"a", "a">>, dest |-> <<"a", "b">>]}

\* the delta holds a directory /a with a file /a/a, and an empty directory /b
CacheWorld ==
    AgentMkdir(AgentCreate(AgentMkdir(InitWorld, <<"a">>, 493).w, <<"a", "a">>, 420).w,
               <<"b">>, 493).w

InitCache ==
    /\ base = CacheWorld.base
    /\ inodes = CacheWorld.inodes
    /\ dentries = CacheWorld.dentries
    /\ data = CacheWorld.data
    /\ symlinks = CacheWorld.symlinks
    /\ whiteouts = CacheWorld.whiteouts
    /\ origins = CacheWorld.origins
    /\ nextIno = CacheWorld.nextIno
    /\ trie = CacheWorld.trie
    /\ cache = CacheWorld.cache
    /\ files = CacheWorld.files
    /\ clock = CacheWorld.clock
    /\ calls = 0
    /\ \E f \in [CacheIds -> CacheCalls] :
        threads = [i \in CacheIds |->
                     [call |-> f[i], pc |-> IF f[i].op = "lstat" THEN "walk" ELSE "call",
                      err |-> OK, k |-> 1, ino |-> 1, found |-> 0, inv |-> <<>>]]

\* thread i took a step that left the world w; t is its record afterwards
CacheStep(i, w, t) ==
    /\ Install(w)
    /\ calls' = calls
    /\ threads' = [threads EXCEPT ![i] = t]

\* resolvePath, one turn of its loop up to the store read: a cache hit goes on
\* to the next part, a miss reads the store (Lookup); after the last part
\* Lstat reads the inode
CacheWalk(i) ==
    /\ threads[i].pc = "walk"
    /\ IF threads[i].k > Len(threads[i].call.path)
       THEN CacheStep(i, World,
                [threads[i] EXCEPT !.pc = "done",
                     !.err = IF HasInode(World, threads[i].ino) THEN OK ELSE ErrNotFound])
       ELSE IF <<threads[i].ino, threads[i].call.path[threads[i].k]>> \in DOMAIN cache
       THEN CacheStep(i, World,
                [threads[i] EXCEPT !.k = @ + 1,
                     !.ino = cache[<<threads[i].ino, threads[i].call.path[threads[i].k]>>]])
       ELSE IF ~HasDentry(World, threads[i].ino, threads[i].call.path[threads[i].k])
       THEN CacheStep(i, World, [threads[i] EXCEPT !.pc = "done", !.err = ErrNotFound])
       ELSE CacheStep(i, World,
                [threads[i] EXCEPT !.pc = "add",
                     !.found = Lookup(World, threads[i].ino, threads[i].call.path[threads[i].k])])

\* resolvePath: "a.cache.Add(key, childIno); ino = childIno"
CacheAdd(i) ==
    /\ threads[i].pc = "add"
    /\ CacheStep(i,
            [World EXCEPT !.cache = Put(@, <<threads[i].ino, threads[i].call.path[threads[i].k]>>,
                                        threads[i].found)],
            [threads[i] EXCEPT !.pc = "walk", !.k = @ + 1, !.ino = threads[i].found])

\* the mutation of call c on world w, as AgentFS runs it
CacheCallOf(c, w) ==
    CASE c.op = "remove" -> AgentRemove(w, c.path)
      [] c.op = "rmdir" -> AgentRmdir(w, c.path)
      [] c.op = "rename" -> AgentRename(w, c.path, c.dest)

\* the dentry cache after the resolveParentAndName calls the mutation starts with
CacheResolved(c, w) ==
    IF c.op = "rename" /\ resolveParentAndName(w, c.path).err = OK
    THEN resolveParentAndName(resolveParentAndName(w, c.path).w, c.dest).w.cache
    ELSE resolveParentAndName(w, c.path).w.cache

\* the keys the mutation invalidates when it has succeeded
CacheKeys(c, w) ==
    IF c.op = "rename"
    THEN << <<resolveParentAndName(w, c.path).val, BaseName(c.path)>>,
            <<resolveParentAndName(w, c.dest).val, BaseName(c.dest)>> >>
    ELSE << <<resolveParentAndName(w, c.path).val, BaseName(c.path)>> >>

CacheMutated(i, r, resolved, keys) ==
    CacheStep(i, [r.w EXCEPT !.cache = resolved],
              [threads[i] EXCEPT !.err = r.err, !.inv = IF r.err = OK THEN keys ELSE <<>>,
                                 !.pc = IF r.err = OK THEN "invalidate" ELSE "done"])

\* Remove, Rmdir, Rename up to the end of the transaction
CacheMutate(i) ==
    /\ threads[i].pc = "call"
    /\ CacheMutated(i, CacheCallOf(threads[i].call, World),
                    CacheResolved(threads[i].call, World), CacheKeys(threads[i].call, World))

\* "if err == nil { a.invalidateCache(parentIno, name) }", one key
CacheInvalidate(i) ==
    /\ threads[i].pc = "invalidate"
    /\ CacheStep(i, invalidateCache(World, Head(threads[i].inv)[1], Head(threads[i].inv)[2]),
                 [threads[i] EXCEPT !.inv = Tail(@),
                                    !.pc = IF Len(threads[i].inv) = 1 THEN "done" ELSE "invalidate"])

NextCache ==
    \E i \in CacheIds : CacheWalk(i) \/ CacheAdd(i) \/ CacheMutate(i) \/ CacheInvalidate(i)

SpecCache == InitCache /\ [][NextCache]_vars

\* every entry of the dentry cache is the store's dentry for its key
CacheCoherent(w) ==
    \A key \in DOMAIN w.cache : key \in DOMAIN w.dentries /\ w.dentries[key] = w.cache[key]

\* a path the store does not have does not resolve
GoneStaysGone(w) ==
    \A p \in Paths : ~InDelta(w, p) =>
        /\ AgentLstat(w, p).err = ErrNotFound
        /\ AgentAccess(w, p).err = ErrNotFound
        /\ AgentOpen(w, p, O_RDONLY).err = ErrNotFound

\* C27: dentry cache coherence.  After any interleaving of path resolutions
\* with Remove, Rmdir and Rename in the delta has completed, every entry of the
\* dentry cache equals the store's dentry for that key, and a path that was
\* removed or renamed away does not resolve: Lstat, Access and Open on it return
\* not-found.
C27_CacheCoherence ==
    (\A i \in CacheIds : threads[i].pc = "done") =>
        CacheCoherent(World) /\ GoneStaysGone(World)

-----------------------------------------------------------------------------
\* the rows of inode ino in the data and symlink tables
RowsOf(w, ino) == {k \in DOMAIN w.data : k[1] = ino} \cup ({ino} \cap DOMAIN w.symlinks)

\* the destination dentry dst holds a directory with entries
OntoNonEmptyDir(w, dst) ==
    /\ HasInode(w, w.dentries[dst])
    /\ IsDirMode(w.inodes[w.dentries[dst]].mode)
    /\ HasChildren(w, w.dentries[dst])

\* Store.Rename of dentry src onto the existing dentry dst, with result r:
\* refused as a whole over a non-empty directory; otherwise the destination's
\* inode t has one link less, or is gone with its rows at zero, src is gone,
\* dst points to the source inode s, whose link count is as before
RenamedOver(w, r, src, dst) ==
    LET s == w.dentries[src]
        t == w.dentries[dst]
    IN IF OntoNonEmptyDir(w, dst)
       THEN r.err = DbErrNotEmpty /\ Tables(r.w) = Tables(w)
       ELSE /\ r.err = OK
            /\ IF w.inodes[t].nlink = 1
               THEN ~HasInode(r.w, t) /\ RowsOf(r.w, t) = {}
               ELSE HasInode(r.w, t) /\ r.w.inodes[t].nlink = w.inodes[t].nlink - 1
            /\ src \notin DOMAIN r.w.dentries
            /\ dst \in DOMAIN r.w.dentries /\ r.w.dentries[dst] = s
            /\ HasInode(r.w, s) /\ r.w.inodes[s].nlink = w.inodes[s].nlink

\* the dentry key AgentFS.Rename hands to the store for path p: the parent
\* inode resolveParentAndName finds, and the name
KeyOf(w, p) == <<resolveParentAndName(w, p).val, BaseName(p)>>

\* the pairs of dentries, of two different inodes with their rows, that
\* AgentFS.Rename reaches from a pair of paths
RenamePairs(w) ==
    {<<KeyOf(w, x[1]), KeyOf(w, x[2])>> :
        x \in {y \in Paths \X Paths :
                  /\ resolveParentAndName(w, y[1]).err = OK
                  /\ resolveParentAndName(w, y[2]).err = OK
                  /\ KeyOf(w, y[1]) \in DOMAIN w.dentries
                  /\ KeyOf(w, y[2]) \in DOMAIN w.dentries
                  /\ w.dentries[KeyOf(w, y[1])] # w.dentries[KeyOf(w, y[2])]
                  /\ HasInode(w, w.dentries[KeyOf(w, y[1])])
                  /\ HasInode(w, w.dentries[KeyOf(w, y[2])])}}

\* C28: store rename over an existing destination.  Over a non-empty directory
\* the rename fails with not-empty and nothing changes; otherwise, in one
\* transaction, the destination's former inode loses one link and is reaped
\* with its data or symlink rows at zero, the source dentry disappears, one
\* dentry (new-parent, new-name) points to the source inode, and the source
\* inode's link count is unchanged.
C28_RenameOverExisting ==
    \A pr \in RenamePairs(World) :
        RenamedOver(World,
                    StoreRename(World, pr[1][1], pr[2][1], pr[1][2], pr[2][2]),
                    pr[1], pr[2])

-----------------------------------------------------------------------------
\* the call with result r from state w succeeded and left the tables and the
\* whiteout trie as they were
NoOp(w, r) == r.err = OK /\ Tables(r.w) = Tables(w) /\ r.w.trie = w.trie

\* C29: rename onto itself is a no-op.  Rename(p, p) on a visible path p returns
\* success and leaves the store and the whiteout set unchanged, so p stays
\* visible with the same inode, content and link count, whether the inode has
\* one link or several.
C29_RenameOntoItself ==
    \A p \in Paths \ {<<>>} : OverlayLstat(World, p).err = OK =>
        NoOp(World, OverlayRename(World, p, p))

-----------------------------------------------------------------------------
\* what Lstat reports of a path: the error, or inode number, mode, uid and gid
LstatView(l) ==
    IF l.err # OK THEN <<l.err>>
    ELSE <<OK, l.val.ino, l.val.mode, l.val.uid, l.val.gid>>

\* p is visible and in the base alone
BaseOnly(w, p) == OverlayLstat(w, p).err = OK /\ InBase(w, p) /\ ~InDelta(w, p)

\* the copy-up with result c of path p from state w left Lstat of every other
\* path as it was
OthersKept(w, c, p) ==
    c.err = OK =>
        \A q \in Paths \ {p} : LstatView(OverlayLstat(c.w, q)) = LstatView(OverlayLstat(w, q))

\* C30: copy-up frame condition.  Copying up a base-only path p changes the
\* merged-view Lstat result (inode number, type and permission bits, uid, gid)
\* of no path other than p; the ancestor directories of p, which copy-up makes
\* in the delta, keep reporting the base directory's inode number, permission
\* bits and owner.
C30_CopyUpFrame ==
    \A p \in Paths : BaseOnly(World, p) => OthersKept(World, copyOnWrite(World, p), p)

-----------------------------------------------------------------------------
\* Two AgentFile.Write calls on one file, statement by statement.

WriterIds == {1, 2}

\* the delta with the regular file /a, empty
WriterFile == AgentCreate(InitWorld, <<"a">>, 420).w

\* the inode of the file both handles are open on
WriterIno == Lookup(WriterFile, 1, "a")

\* the content the file starts with
WriterPriors == {<<>>, <<1, 2, 3>>}

WriterBytes == {<<9>>, <<8, 8>>}

WriterOffsets == {0, 2, 4}

\* the delta holds the regular file /a with the content prior
WriterWorld(prior) ==
    AgentFileWrite(WriterFile, WriterIno, prior, 0).w

InitWriters ==
    \E prior \in WriterPriors :
        /\ base = WriterWorld(prior).base
        /\ inodes = WriterWorld(prior).inodes
        /\ dentries = WriterWorld(prior).dentries
        /\ data = WriterWorld(prior).data
        /\ symlinks = WriterWorld(prior).symlinks
        /\ whiteouts = WriterWorld(prior).whiteouts
        /\ origins = WriterWorld(prior).origins
        /\ nextIno = WriterWorld(prior).nextIno
        /\ trie = WriterWorld(prior).trie
        /\ cache = WriterWorld(prior).cache
        /\ files = WriterWorld(prior).files
        /\ clock = WriterWorld(prior).clock
        /\ calls = 0
        /\ \E b \in [WriterIds -> WriterBytes], o \in [WriterIds -> WriterOffsets] :
            threads = [i \in WriterIds |->
                         [bytes |-> b[i], offset |-> o[i], pc |-> "write", err |-> OK,
                          size |-> 0, prior |-> Len(prior)]]

\* thread i took a step that left the world w and goes on at pc2
WriterStep(i, w, e, size, pc2) ==
    /\ Install(w)
    /\ calls' = calls
    /\ threads' = [threads EXCEPT ![i] = [@ EXCEPT !.pc = pc2, !.err = e, !.size = size]]

WriterStored(i, r) ==
    WriterStep(i, r.w, r.err, 0, IF r.err = OK THEN "get" ELSE "done")

\* "f.store.WriteData(ctx, f.ino, offset, data)"
WriterStore(i) ==
    /\ threads[i].pc = "write"
    /\ WriterStored(i, WriteData(World, WriterIno, threads[i].offset, threads[i].bytes))

\* "inode, err := f.store.GetInode(ctx, f.ino)"
WriterGetInode(i) ==
    /\ threads[i].pc = "get"
    /\ IF HasInode(World, WriterIno)
       THEN WriterStep(i, World, OK, inodes[WriterIno].size, "update")
       ELSE WriterStep(i, World, DbErrNotFound, 0, "done")

\* "if newSize > inode.Size { UpdateSize } else { UpdateTimes }", with the size
\* GetInode returned
WriterUpdate(i) ==
    /\ threads[i].pc = "update"
    /\ IF threads[i].offset + Len(threads[i].bytes) > threads[i].size
       THEN WriterStep(i, UpdateSize(World, WriterIno, threads[i].offset + Len(threads[i].bytes)),
                       OK, threads[i].size, "done")
       ELSE WriterStep(i, UpdateTimes(World, WriterIno, <<>>, <<clock>>),
                       OK, threads[i].size, "done")

NextWriters == \E i \in WriterIds : WriterStore(i) \/ WriterGetInode(i) \/ WriterUpdate(i)

SpecWriters == InitWriters /\ [][NextWriters]_vars

\* the end of the data thread i writes
WriterEnd(i) == threads[i].offset + Len(threads[i].bytes)

\* C31: file size under concurrent writers.  Once two handle Writes to the
\* same file have both returned, the inode size is at least the end of each
\* write and at least the size the file had before.
C31_SizeCoversWrites ==
    (\A i \in WriterIds : threads[i].pc = "done" /\ threads[i].err = OK) =>
        /\ \A i \in WriterIds : inodes[WriterIno].size >= WriterEnd(i)
        /\ inodes[WriterIno].size >= threads[1].prior

-----------------------------------------------------------------------------
\* AgentFS.Rmdir of a directory running against a call that makes a child of
\* it, statement by statement.  Thread 1 removes, thread 2 makes.

EmptyDir == <<"a">>

LinkSource == <<"b">>

MakeOps == {"create", "mkdir", "symlink", "link"}

\* the delta holds the empty directory /a and the regular file /b
RmdirWorld == AgentCreate(AgentMkdir(InitWorld, EmptyDir, 493).w, LinkSource, 420).w

InitRmdir ==
    /\ base = RmdirWorld.base
    /\ inodes = RmdirWorld.inodes
    /\ dentries = RmdirWorld.dentries
    /\ data = RmdirWorld.data
    /\ symlinks = RmdirWorld.symlinks
    /\ whiteouts = RmdirWorld.whiteouts
    /\ origins = RmdirWorld.origins
    /\ nextIno = RmdirWorld.nextIno
    /\ trie = RmdirWorld.trie
    /\ cache = RmdirWorld.cache
    /\ files = RmdirWorld.files
    /\ clock = RmdirWorld.clock
    /\ calls = 0
    /\ \E op \in MakeOps, n \in Names :
        threads = << [op |-> "rmdir", path |-> EmptyDir, pc |-> "resolve", err |-> OK,
                      parent |-> 0, ino |-> 0],
                     [op |-> op, path |-> EmptyDir \o <<n>>, pc |-> "resolve", err |-> OK,
                      parent |-> 0, ino |-> 0] >>

\* thread i took a step that left the world w; t is its record afterwards
RmdirStep(i, w, t) ==
    /\ Install(w)
    /\ calls' = calls
    /\ threads' = [threads EXCEPT ![i] = t]

\* thread i returns e
RmdirReturn(i, w, e) == RmdirStep(i, w, [threads[i] EXCEPT !.pc = "done", !.err = e])

\* Rmdir after resolveParentAndName returned r and Lookup returned ino
RmdirLooked(r, ino) ==
    IF r.err # OK THEN RmdirReturn(1, r.w, r.err)
    ELSE IF ino = 0 THEN RmdirReturn(1, r.w, ErrNotFound)
    ELSE IF ~HasInode(r.w, ino) THEN RmdirReturn(1, r.w, DbErrNotFound)
    ELSE IF ~IsDirMode(r.w.inodes[ino].mode) THEN RmdirReturn(1, r.w, ErrNotDir)
    ELSE RmdirStep(1, r.w, [threads[1] EXCEPT !.pc = "check", !.parent = r.val, !.ino = ino])

RmdirResolved(r) == RmdirLooked(r, IF r.err = OK THEN Lookup(r.w, r.val, BaseName(EmptyDir)) ELSE 0)

\* Rmdir: resolveParentAndName, Lookup, GetInode, IsDir
RmdirLookup ==
    /\ threads[1].pc = "resolve"
    /\ RmdirResolved(resolveParentAndName(World, EmptyDir))

\* Rmdir: "hasChildren, err := a.store.HasChildren(ctx, ino)"
RmdirCheck ==
    /\ threads[1].pc = "check"
    /\ IF HasChildren(World, threads[1].ino)
       THEN RmdirReturn(1, World, ErrNotEmpty)
       ELSE RmdirStep(1, World, [threads[1] EXCEPT !.pc = "tx"])

RmdirCommitted(r) ==
    RmdirStep(1, r.w, [threads[1] EXCEPT !.err = r.err,
                                         !.pc = IF r.err = OK THEN "invalidate" ELSE "done"])

\* Rmdir: the transaction (DeleteDentryTx, DeleteInodeTx, DecrNlinkTx)
RmdirTx ==
    /\ threads[1].pc = "tx"
    /\ RmdirCommitted(WithTx(World,
            AgentRmdirTx(DeleteDentryTx(World, threads[1].parent, BaseName(EmptyDir)),
                         threads[1].parent, threads[1].ino)))

\* Rmdir: "if err == nil { a.invalidateCache(parentIno, name) }"
RmdirInvalidate ==
    /\ threads[1].pc = "invalidate"
    /\ RmdirReturn(1, invalidateCache(World, threads[1].parent, BaseName(EmptyDir)), OK)

\* the maker after its resolveParentAndName returned r; src is the inode Link
\* resolved its old path to
MakeResolved(r, src) ==
    IF r.err # OK THEN RmdirReturn(2, r.w, r.err)
    ELSE RmdirStep(2, r.w, [threads[2] EXCEPT !.pc = "tx", !.parent = r.val, !.ino = src])

\* Link: resolvePath(oldpath), GetInode, IsDir, then resolveParentAndName(newpath)
MakeLinkResolved(r) ==
    IF r.err # OK THEN RmdirReturn(2, r.w, r.err)
    ELSE IF ~HasInode(r.w, r.val) THEN RmdirReturn(2, r.w, DbErrNotFound)
    ELSE IF IsDirMode(r.w.inodes[r.val].mode) THEN RmdirReturn(2, r.w, ErrIsDir)
    ELSE MakeResolved(resolveParentAndName(r.w, threads[2].path), r.val)

\* Create, Mkdir, Symlink, Link up to their transaction
MakeResolve ==
    /\ threads[2].pc = "resolve"
    /\ IF threads[2].op = "link"
       THEN MakeLinkResolved(resolvePath(World, LinkSource))
       ELSE MakeResolved(resolveParentAndName(World, threads[2].path), nextIno)

\* the transaction of the maker's call, with the parent it resolved
MakeTxOf(t, w) ==
    CASE t.op = "create" -> AgentCreateTx(w, t.parent, BaseName(t.path), 420)
      [] t.op = "mkdir" -> AgentMkdirTx(w, t.parent, BaseName(t.path), 493)
      [] t.op = "symlink" -> AgentSymlinkTx(w, t.parent, BaseName(t.path), <<"a">>)
      [] t.op = "link" -> AgentLinkTo(RV(OK, w, t.parent), BaseName(t.path), t.ino)

MakeCommitted(r, ino) ==
    RmdirStep(2, r.w, [threads[2] EXCEPT !.err = r.err, !.ino = ino,
                           !.pc = IF r.err = OK /\ threads[2].op = "create"
                                  THEN "stat" ELSE "done"])

\* the maker's WithTx
MakeTx ==
    /\ threads[2].pc = "tx"
    /\ MakeCommitted(MakeTxOf(threads[2], World),
                     IF threads[2].op = "link" THEN threads[2].ino ELSE nextIno)

\* Create: "inode, err := a.store.GetInode(ctx, ino)" for the handle's stats
MakeStat ==
    /\ threads[2].pc = "stat"
    /\ RmdirReturn(2, World, GetInodeErr(World, threads[2].ino))

NextRmdir == RmdirLookup \/ RmdirCheck \/ RmdirTx \/ RmdirInvalidate
             \/ MakeResolve \/ MakeTx \/ MakeStat

SpecRmdir == InitRmdir /\ [][NextRmdir]_vars

\* the inodes the dentries lead to from the root
RECURSIVE ReachedFrom(_, _)
ReachedFrom(w, seen) ==
    IF {w.dentries[k] : k \in {d \in DOMAIN w.dentries : d[1] \in seen}} \subseteq seen
    THEN seen
    ELSE ReachedFrom(w, seen \cup {w.dentries[k] : k \in {d \in DOMAIN w.dentries : d[1] \in seen}})

\* every linked inode has a dentry and is reached from the root
NoOrphan(w) ==
    \A ino \in DOMAIN w.inodes : w.inodes[ino].nlink >= 1 => ino \in ReachedFrom(w, {1})

\* C32: Rmdir racing with creation.  Rmdir(d) and a concurrent Create, Mkdir,
\* Symlink or Link of a child of d never both return success, and in every
\* state each inode with a link count of at least 1 has a dentry and is
\* reachable from the root.
C32_RmdirAgainstCreate ==
    /\ ~(\A i \in {1, 2} : threads[i].pc = "done" /\ threads[i].err = OK)
    /\ NoOrphan(World)

-----------------------------------------------------------------------------
\* Stat of p and of q report the number ino
BothReport(w, p, q, ino) ==
    /\ OverlayStat(w, p).err = OK /\ OverlayStat(w, p).val.ino = ino
    /\ OverlayStat(w, q).err = OK /\ OverlayStat(w, q).val.ino = ino

\* Link(p, q) of a base-only file p onto a free name q, with result l from
\* state w: both names report the base inode number, and q still does so after
\* Remove(p)
LinkKeepsIdentity(w, l, p, q) ==
    l.err = OK =>
        /\ BothReport(l.w, p, q, w.base[p].ino)
        /\ OverlayRemove(l.w, p).err = OK =>
              /\ OverlayStat(OverlayRemove(l.w, p).w, q).err = OK
              /\ OverlayStat(OverlayRemove(l.w, p).w, q).val.ino = w.base[p].ino

\* a Remove that fails leaves the origin mappings as they were
FailedRemoveKeepsOrigin(w, p) ==
    OverlayRemove(w, p).err # OK => OverlayRemove(w, p).w.origins = w.origins

\* C33: hard-link identity through copy-up.  After a base file p is copied up
\* and Link(p, q) succeeds, Stat(p) and Stat(q) report the base inode number of
\* p; after Remove(p), Stat(q) still reports it; and a Remove that fails leaves
\* the origin mapping in place.
C33_LinkIdentity ==
    /\ \A p \in Paths : \A q \in Paths :
          BaseOnlyFile(World, p) /\ OverlayLstat(World, q).err # OK
              => LinkKeepsIdentity(World, OverlayLink(World, p, q), p, q)
    /\ \A p \in Paths : FailedRemoveKeepsOrigin(World, p)

-----------------------------------------------------------------------------
\* p is a directory of the base that the merged view shows
VisibleBaseDir(w, p) ==
    InBase(w, p) /\ IsDirMode(w.base[p].mode) /\ OverlayLstat(w, p).err = OK

\* in state w the directory p lists nothing and shows none of its base children
ShowsNoBaseChild(w, p) ==
    /\ OverlayReaddir(w, p).err = OK /\ OverlayReaddir(w, p).val = {}
    /\ \A n \in Names :
          Append(p, n) \in Paths /\ InBase(w, Append(p, n))
              => OverlayLstat(w, Append(p, n)).err = ErrNotFound

\* Rmdir(p) with result rm, then Mkdir(p): the new directory is empty
RecreatedEmpty(rm, p) ==
    rm.err = OK /\ OverlayMkdir(rm.w, p, 493).err = OK
        => ShowsNoBaseChild(OverlayMkdir(rm.w, p, 493).w, p)

\* C34: a recreated directory is empty.  When Rmdir(p) succeeds on a directory
\* present in the base and Mkdir(p) then succeeds, Readdir(p) returns no
\* entries and Lstat(p/n) returns not-found for every base child n of p.
C34_RecreatedDirEmpty ==
    \A p \in Paths : VisibleBaseDir(World, p) => RecreatedEmpty(OverlayRmdir(World, p), p)

-----------------------------------------------------------------------------
\* the listings of the two layers for d, empty when the layer cannot list d
DeltaListing(w, d) == IF AgentReaddir(w, d).err = OK THEN AgentReaddir(w, d).val ELSE {}

BaseListing(w, d) == IF HostReaddirErr(w.base, d) = OK THEN HostReaddir(w.base, d) ELSE {}

NamesOf(entries) == {e.name : e \in entries}

\* d is a directory of the merged view: not whited out, no ancestor whited
\* out, a directory of the delta or, when the delta has no d, of the base
MergedDir(w, d) ==
    /\ ~WhitedOut(w, d) /\ ~AncestorWhitedOut(w, d)
    /\ \/ InDelta(w, d) /\ IsDirMode(w.inodes[DeltaIno(w, d)].mode)
       \/ ~InDelta(w, d) /\ InBase(w, d) /\ IsDirMode(w.base[d].mode)

\* the names Readdir(d) returns are the delta's names and the base's names
\* that have no whiteout row and are not the delta's; a name of the delta
\* comes with the delta's entry
MergeFormula(w, d) ==
    /\ OverlayReaddir(w, d).err = OK
    /\ NamesOf(OverlayReaddir(w, d).val) =
          NamesOf(DeltaListing(w, d)) \cup
          {n \in NamesOf(BaseListing(w, d)) :
              ~WhitedOut(w, Append(d, n)) /\ n \notin NamesOf(DeltaListing(w, d))}
    /\ \A e \in OverlayReaddir(w, d).val :
          e.name \in NamesOf(DeltaListing(w, d)) => e \in DeltaListing(w, d)

-----------------------------------------------------------------------------
\* One caller of OverlayFS, one call after the other, with the two statements
\* of each whiteout site as steps of their own and a store statement that can
\* fail.

MaxOrderCalls == 2

OrderOps == {"remove", "rmdir", "rename", "create", "mkdir", "symlink", "link"}

InitOrder ==
    /\ base = InitWorld.base
    /\ inodes = InitWorld.inodes
    /\ dentries = InitWorld.dentries
    /\ data = InitWorld.data
    /\ symlinks = InitWorld.symlinks
    /\ whiteouts = InitWorld.whiteouts
    /\ origins = InitWorld.origins
    /\ nextIno = InitWorld.nextIno
    /\ trie = InitWorld.trie
    /\ cache = InitWorld.cache
    /\ files = InitWorld.files
    /\ clock = InitWorld.clock
    /\ calls = 0
    /\ threads = << [op |-> "none", path |-> <<>>, dest |-> <<>>, pc |-> "idle", err |-> OK] >>

\* the caller took a step that left the world w and is at pc2
OrderStep(w, pc2) ==
    /\ Install(w)
    /\ calls' = calls
    /\ threads' = [threads EXCEPT ![1] = [@ EXCEPT !.pc = pc2]]

\* the call returns e
OrderReturn(w, e) ==
    /\ Install(w)
    /\ calls' = calls
    /\ threads' = [threads EXCEPT ![1] = [@ EXCEPT !.pc = "idle", !.err = e]]

\* the path whose whiteout a call erases: the new name of Rename and Link
OrderTarget(t) == IF t.op \in {"rename", "link"} THEN t.dest ELSE t.path

\* Remove and Rmdir up to their whiteout site: the checks and the delta's call
OrderUnlinkAt(x, op, p) ==
    IF ~x.val /\ ~existsInBase(x.w, p) THEN R(ErrNotFound, x.w)
    ELSE IF ~x.val THEN R(OK, x.w)
    ELSE IF op = "remove" THEN RemoveInDelta(GetIno(x.w, p), p)
    ELSE AgentRmdir(x.w, p)

\* Rename up to its first whiteout site: the checks, copyOnWrite, ensureParentDirs
OrderRenameCopied(c, q) == IF c.err # OK THEN c ELSE ensureParentDirs(c.w, q)

OrderRenameAt(x, p, q) ==
    IF ~x.val /\ ~existsInBase(x.w, p) THEN R(ErrNotFound, x.w)
    ELSE OrderRenameCopied(IF ~x.val THEN copyOnWrite(x.w, p) ELSE R(OK, x.w), q)

\* the statements of a call that come before its first whiteout site
OrderPre(w, op, p, q) ==
    CASE op \in {"create", "mkdir", "symlink"} ->
            IF ParentWhitedOut(w, p) THEN R(ErrNotFound, w) ELSE R(OK, w)
      [] op = "link" -> CopyFirst(w, p)
      [] op = "rename" ->
            IF HasWhiteoutAncestor(w.trie, p) THEN R(ErrNotFound, w)
            ELSE OrderRenameAt(existsInDelta(w, p), p, q)
      [] op \in {"remove", "rmdir"} ->
            IF HasWhiteoutAncestor(w.trie, p) THEN R(ErrNotFound, w)
            ELSE OrderUnlinkAt(existsInDelta(w, p), op, p)

\* where a call goes on after those statements returned r
OrderBegun(r, t) ==
    /\ Install(r.w)
    /\ calls' = calls + 1
    /\ threads' = << [t EXCEPT
          !.err = r.err,
          !.pc = IF r.err # OK THEN "idle"
                 ELSE IF t.op \in {"remove", "rmdir"}
                 THEN IF existsInBase(r.w, t.path) THEN "row" ELSE "idle"
                 ELSE IF HasExactWhiteout(r.w.trie, OrderTarget(t)) THEN "erase" ELSE "make"] >>

\* a call starts
OrderCall ==
    /\ threads[1].pc = "idle"
    /\ calls < MaxOrderCalls
    /\ \E op \in OrderOps, p \in Paths, q \in Paths :
          /\ op \in {"rename", "link"} \/ q = <<>>
          /\ OrderBegun(OrderPre(World, op, p, q),
                        [op |-> op, path |-> p, dest |-> q, pc |-> "idle", err |-> OK])

\* "if err := o.delta.Store().DeleteWhiteout(ctx, path); err != nil { return err }"
OrderErase ==
    /\ threads[1].pc = "erase"
    /\ \/ OrderStep(DeleteWhiteout(World, OrderTarget(threads[1])), "unmark")
       \/ OrderReturn(World, SqlErr)

\* "o.whiteout.Remove(path)"
OrderUnmark ==
    /\ threads[1].pc = "unmark"
    /\ OrderStep([World EXCEPT !.trie = TrieRemove(trie, OrderTarget(threads[1]))], "make")

\* the statements after the erasing site, t being the call
OrderMade(w, t) ==
    CASE t.op = "create" -> OverlayCreateAt(ensureParentDirs(w, t.path), t.path, 420)
      [] t.op = "mkdir" -> OverlayMkdirAt(ensureParentDirs(w, t.path), t.path, 493)
      [] t.op = "symlink" -> OverlaySymlinkAt(ensureParentDirs(w, t.path), <<"a">>, t.path)
      [] t.op = "link" -> OverlayLinkEnsured(ensureParentDirs(w, t.dest), t.path, t.dest)
      [] t.op = "rename" -> AgentRename(w, t.path, t.dest)

OrderMakeDone(r) ==
    IF r.err = OK /\ threads[1].op = "rename" /\ existsInBase(r.w, threads[1].path)
    THEN OrderStep(r.w, "row")
    ELSE OrderReturn(r.w, r.err)

\* ensureParentDirs and the delta's call; in Rename, the delta's Rename
OrderMake ==
    /\ threads[1].pc = "make"
    /\ OrderMakeDone(OrderMade(World, threads[1]))

\* "if err := o.delta.Store().CreateWhiteout(ctx, path); err != nil { return err }"
OrderRow ==
    /\ threads[1].pc = "row"
    /\ \/ OrderStep(CreateWhiteout(World, threads[1].path), "mark")
       \/ OrderReturn(World, SqlErr)

\* "o.whiteout.Insert(path)"
OrderMark ==
    /\ threads[1].pc = "mark"
    /\ OrderReturn([World EXCEPT !.trie = TrieInsert(trie, threads[1].path)], OK)

NextOrder == OrderCall \/ OrderErase \/ OrderUnmark \/ OrderMake \/ OrderRow \/ OrderMark

SpecOrder == InitOrder /\ [][NextOrder]_vars

\* a step that changes the index finds the store already changed, and leaves it
IndexFollowsStore ==
    /\ \A p \in trie'.marks \ trie.marks : p \in ListWhiteouts(World)
    /\ \A p \in trie.marks \ trie'.marks : p \notin ListWhiteouts(World)
    /\ trie'.marks # trie.marks => whiteouts' = whiteouts

\* C36: store-before-index ordering.  At every site that creates or erases a
\* whiteout the index changes only after the store change has committed, a
\* failed store change leaves the index as it was, and so between the calls
\* of a sequential execution every whiteout of the index is a row of the store.
C36_StoreBeforeIndex ==
    /\ [](threads[1].pc = "idle" => trie.marks \subseteq ListWhiteouts(World))
    /\ [][IndexFollowsStore]_vars

\* a call has erased the row of its target and not yet the mark
C36_Witness ==
    /\ threads # <<>> /\ threads[1].pc = "unmark"
    /\ OrderTarget(threads[1]) \in trie.marks
    /\ OrderTarget(threads[1]) \notin ListWhiteouts(World)

-----------------------------------------------------------------------------
\* Create, Mkdir and Symlink at p from state w
Recreations(w, p) ==
    {[r |-> OverlayCreate(w, p, 420), type |-> S_IFREG],
     [r |-> OverlayMkdir(w, p, 493), type |-> S_IFDIR],
     [r |-> OverlaySymlink(w, <<"a">>, p), type |-> S_IFLNK]}

\* p carries an exact whiteout, in the store and in the index
CarriesWhiteout(w, p) == WhitedOut(w, p) /\ HasExactWhiteout(w.trie, p)

\* the call c at p from state w erased the whiteout of p and no other, and
\* Lstat(p) reports the entity the call made in the delta
Recreated(w, c, p) ==
    c.r.err = OK =>
        /\ ListWhiteouts(c.r.w) = ListWhiteouts(w) \ {p}
        /\ c.r.w.trie.marks = w.trie.marks \ {p}
        /\ OverlayLstat(c.r.w, p).err = OK
        /\ OverlayLstat(c.r.w, p).val.ino \notin DOMAIN w.inodes
        /\ OverlayLstat(c.r.w, p).val.ino = DeltaIno(c.r.w, p)
        /\ TypeOf(OverlayLstat(c.r.w, p).val.mode) = c.type

-----------------------------------------------------------------------------
\* no data, symlink or origin row of w belongs to an inode w does not have
NoRowWithoutInode(w) ==
    /\ \A k \in DOMAIN w.data : HasInode(w, k[1])
    /\ \A i \in DOMAIN w.symlinks : HasInode(w, i)
    /\ \A i \in DOMAIN w.origins : HasInode(w, i)

\* the bytes the delta holds for inode ino
StoredBytes(w, ino) == ReadData(w, ino, 0, w.inodes[ino].size)

\* the chunks of inode ino
ChunksOf(w, ino) == {k \in DOMAIN w.data : k[1] = ino}

\* Remove(p) with result rm on the state w, where p and q name inode ino:
\* only the dentry of p goes, the link count drops by one, q still names ino
\* with the same content
OneLinkRemoved(w, rm, p, q, ino) ==
    rm.err = OK =>
        /\ rm.w.dentries = Drop(w.dentries, {KeyOf(w, p)})
        /\ HasInode(rm.w, ino)
        /\ rm.w.inodes[ino].nlink = w.inodes[ino].nlink - 1
        /\ AgentLstat(rm.w, q).err = OK
        /\ AgentLstat(rm.w, q).val.ino = ino
        /\ StoredBytes(rm.w, ino) = StoredBytes(w, ino)
        /\ ChunksOf(rm.w, ino) = ChunksOf(w, ino)
        /\ \A k \in ChunksOf(w, ino) : rm.w.data[k] = w.data[k]
        /\ (ino \in DOMAIN rm.w.symlinks) = (ino \in DOMAIN w.symlinks)

\* after Link(p, q) with result l, Remove(p) removes one link
LinkThenRemove(l, p, q) ==
    l.err = OK /\ AgentLstat(l.w, p).err = OK
        => OneLinkRemoved(l.w, AgentRemove(l.w, p), p, q, AgentLstat(l.w, p).val.ino)

\* Remove(p) with result rm of the last link of inode ino deletes the inode
\* with all of its rows
LastLinkRemoved(w, rm, ino) ==
    rm.err = OK =>
        /\ ~HasInode(rm.w, ino)
        /\ ChunksOf(rm.w, ino) = {}
        /\ ino \notin DOMAIN rm.w.symlinks
        /\ ino \notin DOMAIN rm.w.origins
        /\ NoRowWithoutInode(rm.w)

\* C38: unlink with hard links.  After Link(p, q) succeeds in the delta,
\* Remove(p) deletes only the dentry p and lowers the link count by one: q
\* still resolves to the same inode with the same content.  Removing the last
\* link deletes the inode row with its data chunks or its symlink row,
\* leaving no data, symlink or origin row of an inode that does not exist.
C38_UnlinkWithHardLinks ==
    /\ \A p \in Paths : \A q \in Paths \ {p} : LinkThenRemove(AgentLink(World, p, q), p, q)
    /\ \A p \in Paths :
          InDelta(World, p) /\ Cardinality(LinksTo(World, DeltaIno(World, p))) = 1
              => LastLinkRemoved(World, AgentRemove(World, p), DeltaIno(World, p))

-----------------------------------------------------------------------------
\* Utimens and handle writes on one delta file while the clock runs.

MaxClock == 5

\* an absent time (nil) and two given times
TimeArgs == {<<>>, <<1>>, <<4>>}

TimesPath == <<"a">>

\* the delta holds the regular file /a with three bytes
TimesWorld == WriterWorld(<<1, 2, 3>>)

InitTimes ==
    /\ base = TimesWorld.base
    /\ inodes = TimesWorld.inodes
    /\ dentries = TimesWorld.dentries
    /\ data = TimesWorld.data
    /\ symlinks = TimesWorld.symlinks
    /\ whiteouts = TimesWorld.whiteouts
    /\ origins = TimesWorld.origins
    /\ nextIno = TimesWorld.nextIno
    /\ trie = TimesWorld.trie
    /\ cache = TimesWorld.cache
    /\ files = TimesWorld.files
    /\ clock = TimesWorld.clock
    /\ calls = 0
    /\ threads = <<>>

TimesCommit(w) ==
    /\ Install(w)
    /\ calls' = calls
    /\ threads' = threads

\* a second passes
TimesTick ==
    /\ clock < MaxClock
    /\ TimesCommit([World EXCEPT !.clock = clock + 1])

TimesUtimens == \E at \in TimeArgs, mt \in TimeArgs :
    TimesCommit(AgentUtimens(World, TimesPath, at, mt).w)

\* a handle write inside the file
TimesWrite == \E off \in {0, 1} :
    TimesCommit(AgentFileWrite(World, WriterIno, <<9>>, off).w)

NextTimes == TimesTick \/ TimesUtimens \/ TimesWrite

SpecTimes == InitTimes /\ [][NextTimes]_vars

\* inode new is inode old with no change but to its three times
OnlyTimesChanged(old, new) ==
    /\ new.mode = old.mode /\ new.uid = old.uid /\ new.gid = old.gid
    /\ new.size = old.size /\ new.nlink = old.nlink

\* Utimens(at, mt) took inode old to inode new at time now
UtimensEffect(old, new, at, mt, now) ==
    /\ new.atime = (IF at = <<>> THEN old.atime ELSE at[1])
    /\ new.mtime = (IF mt = <<>> THEN old.mtime ELSE mt[1])
    /\ new.ctime = now /\ new.ctime >= old.ctime
    /\ OnlyTimesChanged(old, new)

\* a write that does not extend the file took inode old to inode new
InnerWriteEffect(old, new, now) ==
    /\ new.mtime = now
    /\ new.atime = old.atime
    /\ new.size = old.size

\* C39: Utimens leaves absent times alone.  Utimens sets the access time only
\* when one is given and the modification time only when one is given; an
\* absent time keeps its value, the status-change time advances, and mode,
\* owner, size and link count stay.  A handle write that does not extend the
\* file changes the modification time, not the access time or the size.
C39_AbsentTimesKept ==
    /\ \A at \in TimeArgs : \A mt \in TimeArgs :
          /\ AgentUtimens(World, TimesPath, at, mt).err = OK
          /\ UtimensEffect(inodes[WriterIno],
                           AgentUtimens(World, TimesPath, at, mt).w.inodes[WriterIno],
                           at, mt, clock)
    /\ \A off \in {0, 1} :
          /\ AgentFileWrite(World, WriterIno, <<9>>, off).err = OK
          /\ InnerWriteEffect(inodes[WriterIno],
                              AgentFileWrite(World, WriterIno, <<9>>, off).w.inodes[WriterIno],
                              clock)

-----------------------------------------------------------------------------
\* Truncate and handle writes on one delta file.  The file starts with the
\* bytes 1, 2, ... and every write stores the byte 9, so that a byte the file
\* started with is told from a byte written later and from padding.

MaxBytes == 5

OriginalBytes == <<1, 2, 3, 4, 5>>

TruncSizes == 0..MaxBytes

InitTrunc ==
    \E k \in 0..MaxBytes :
        /\ base = WriterWorld(SubSeq(OriginalBytes, 1, k)).base
        /\ inodes = WriterWorld(SubSeq(OriginalBytes, 1, k)).inodes
        /\ dentries = WriterWorld(SubSeq(OriginalBytes, 1, k)).dentries
        /\ data = WriterWorld(SubSeq(OriginalBytes, 1, k)).data
        /\ symlinks = WriterWorld(SubSeq(OriginalBytes, 1, k)).symlinks
        /\ whiteouts = WriterWorld(SubSeq(OriginalBytes, 1, k)).whiteouts
        /\ origins = WriterWorld(SubSeq(OriginalBytes, 1, k)).origins
        /\ nextIno = WriterWorld(SubSeq(OriginalBytes, 1, k)).nextIno
        /\ trie = WriterWorld(SubSeq(OriginalBytes, 1, k)).trie
        /\ cache = WriterWorld(SubSeq(OriginalBytes, 1, k)).cache
        /\ files = WriterWorld(SubSeq(OriginalBytes, 1, k)).files
        /\ clock = WriterWorld(SubSeq(OriginalBytes, 1, k)).clock
        /\ calls = 0
        /\ threads = << [first |-> k, low |-> k] >>

\* the store after a call; low is the smallest size the file has had
TruncCommit(w, low) ==
    /\ Install(w)
    /\ calls' = calls
    /\ threads' = [threads EXCEPT ![1] = [@ EXCEPT !.low = low]]

\* AgentFS.Truncate(path, n)
TruncCall == \E n \in TruncSizes :
    TruncCommit(AgentTruncate(World, TimesPath, n).w, Min2(threads[1].low, n))

\* a handle write of one byte, inside the file or past its end
TruncWrite == \E off \in 0..(MaxBytes - 1) :
    TruncCommit(AgentFileWrite(World, WriterIno, <<9>>, off).w, threads[1].low)

NextTrunc == TruncCall \/ TruncWrite

SpecTrunc == InitTrunc /\ [][NextTrunc]_vars

\* after the truncate to n that left the state t, the chunks end at n
ChunksEndAt(t, ino, n) ==
    \A k \in ChunksOf(t, ino) :
        /\ n > 0
        /\ k[2] <= (n + ChunkSize - 1) \div ChunkSize - 1
        /\ Len(t.data[k]) <= n - k[2] * ChunkSize

\* Truncate(n) with result t from state w: the size, the chunks, the prefix
Truncated(w, t, ino, n) ==
    /\ t.err = OK
    /\ t.w.inodes[ino].size = n
    /\ ChunksEndAt(t.w, ino, n)
    /\ ReadData(t.w, ino, 0, Min2(n, w.inodes[ino].size))
          = ReadData(w, ino, 0, Min2(n, w.inodes[ino].size))

\* no read at or after position low returns a byte the file started with
NoStaleByte(w, ino, low) ==
    \A off \in low..MaxBytes : \A len \in 1..MaxBytes :
        \A i \in 1..Len(ReadData(w, ino, off, len)) :
            ReadData(w, ino, off, len)[i] \notin {OriginalBytes[j] : j \in 1..MaxBytes}

\* C40: truncate keeps the prefix and drops the rest.  After Truncate(p, n) the
\* size is n, no chunk lies past index ceil(n / chunk-size) - 1, the last chunk
\* holds at most n - index * chunk-size bytes, n = 0 leaves no chunk, and the
\* first min(n, old size) bytes read back unchanged; no byte stored at a
\* position >= n before the truncate is returned by a later read, also after
\* the file has been extended again.
C40_TruncateKeepsPrefix ==
    /\ \A n \in TruncSizes : Truncated(World, AgentTruncate(World, TimesPath, n), WriterIno, n)
    /\ NoStaleByte(World, WriterIno, threads[1].low)

=============================================================================
